---- MODULE Spec2Model ----
(***************************************************************************)
(* A model of ECI-IAGen/llm-back.                                          *)
(*                                                                         *)
(* Spec      the streaming feedback sessions: the background supervisors   *)
(*           of app.py, FeedbackGeneralService, StreamingMCPAgent, the     *)
(*           MCPLogHandler on the shared 'mcp_use' logger and the          *)
(*           GatewayNotificationService, run by one asyncio event loop.    *)
(* SpecLoop  the tool loop of DeepSeekClient (chat_with_tools and          *)
(*           _process_tools_autonomously).                                 *)
(*                                                                         *)
(* Scheduling of Spec.  The program runs on one asyncio event loop: a      *)
(* coroutine runs without interruption until it awaits something that is   *)
(* not ready (a POST, the agent's model call, the MCP connection); the     *)
(* loop then runs the next entry of its FIFO ready queue.  `running' is    *)
(* the coroutine that holds the loop, `ready' the queue.  A task made by   *)
(* asyncio.create_task is appended to the queue; a completed I/O appends   *)
(* the coroutine that awaited it.                                          *)
(***************************************************************************)
EXTENDS Integers, Sequences, FiniteSets, TLC

\* The chat sessions (their sessionId; each has its own callbackUrl), in the
\* order their requests arrive.
Sessions == {"A", "B"}
Arrival == <<"A", "B">>

\* userRole of a chat request: which endpoint / supervisor serves it.
Roles == {"coordinador", "profesor"}

\* How many 'mcp_use' log records the agents emit at most, all sessions together.
MaxLogs == 1

\* How many things go wrong at most, all sessions together: a configuration
\* file that cannot be loaded, a failed MCP connection, a missing API key, an agent run that raises or returns
\* something that is not a str, a POST that fails (timeout, non-2xx, network).
MaxFaults == 1

VARIABLES
    pc,         \* pc[s]: position of session s's supervisor coroutine
    role,       \* role[s]: "coordinador" | "profesor" | "none" (no request)
    running,    \* the coroutine that holds the event loop, or NoCo
    ready,      \* the event loop's FIFO queue of runnable coroutines
    mcp,        \* mcp[s]: FeedbackGeneralService.mcp_client and its sessions
    agent,      \* agent[s]: FeedbackGeneralService.agent is not None
    handlers,   \* handlers of logging.getLogger('mcp_use'), in addHandler order
    client,     \* client[s]: the AsyncClients s's notifier made; the last is
                \* GatewayNotificationService.client, <<>> stands for None
    closed,     \* closed[s]: FeedbackGeneralService.close() has run
    sendCtx,    \* sendCtx[s]: arguments of the supervisor's current send_update
    sendRes,    \* sendRes[s]: outcome of the supervisor's POST in flight
    tasks,      \* the tasks made by MCPLogHandler.emit, in creation order
    logs,       \* log records emitted on 'mcp_use' so far
    faults,     \* things gone wrong so far
    calls,      \* calls[s]: send_update calls on s's notifier, in call order
    posted,     \* posted[s]: notifications received at s's callbackUrl, in order
    lastSend,   \* the last send_update call that returned
    exc,        \* exc[s]: the exception last exc inside s's pipeline, or "-"
    escaped,    \* escaped[s]: an exception left s's supervisor function
    \* DeepSeekClient.chat_with_tools / _process_tools_autonomously
    lpc,                \* position of the chat_with_tools call
    tools_available,    \* DeepSeekClient.tools_available
    iteration,          \* the loop counter
    current_response,   \* the model reply the loop is looking at
    replyNo,            \* how many replies the primary model calls returned
    pending,            \* requests of tool_requests not yet executed
    iteration_results,  \* has_error of this iteration's executions, in order
    all_tool_results,   \* executions of all iterations: how many ok / failed
    prompt,             \* the follow-up template last sent
    execFrom,           \* number of the reply whose requests ran last
    answer,             \* what chat_with_tools returned
    response,           \* the first reply, while chat_with_tools reads it
    modelCalls,         \* chat_completion calls made so far
    evalCalls,          \* _llm_evaluate_result calls made so far
    toolCalls,          \* execute_tool_request calls made so far
    invoked,            \* positions in tool_requests invoked this iteration
    conversation_history, \* the caller's list, as roles
    messages,           \* chat_with_tools' list for the primary model, as roles
    extracted,          \* requests extracted so far, over all iterations
    final_response,     \* the reply of the synthesis call
    follow_up_messages, \* the list of the last follow-up call, as roles
    final_messages,     \* the list of the synthesis call, as roles
    results_summary,    \* what the synthesis prompt shows of the records
    \* GitHubMCPClient
    gh_connected,       \* GitHubMCPClient.connected
    gh_session,         \* GitHubMCPClient.session: "none" | "live" | "dead"
    available_tools,    \* GitHubMCPClient.available_tools
    providerCalls,      \* names passed to session.call_tool so far, in order
    lastCall,           \* the last call_tool call that ended
    \* the helper functions of DeepSeekClient, applied on their own
    fn,                 \* which one was applied last
    fnArg,              \* its argument
    fnOut,              \* its result
    \* ChatInterface (chat.py)
    chat_history,       \* ChatInterface.conversation_history, as messages
    chat_call           \* the last process_user_input call: its input, the
                        \* answer of chat_with_tools, the value returned and
                        \* the history it started from

sessVars == <<pc, role, running, ready, mcp, agent, handlers, client, closed,
              sendCtx, sendRes, tasks, logs, faults, calls, posted, lastSend,
              exc, escaped>>

loopVars == <<lpc, tools_available, iteration, current_response, replyNo,
              pending, iteration_results, all_tool_results, prompt, execFrom,
              answer, response, modelCalls, evalCalls, toolCalls, invoked,
              conversation_history, messages, extracted, final_response,
              follow_up_messages, final_messages, results_summary>>

\* What the loop has sent beyond the first call.
sentVars == <<follow_up_messages, final_messages, results_summary>>

ghVars == <<gh_connected, gh_session, available_tools, providerCalls, lastCall>>

\* What the actions of one part leave alone.
fnVars == <<fn, fnArg, fnOut>>

chatVars == <<chat_history, chat_call>>

nonSessVars == <<loopVars, ghVars, fnVars, chatVars>>
nonLoopVars == <<sessVars, ghVars, fnVars, chatVars>>
nonGhVars == <<sessVars, loopVars, fnVars, chatVars>>
nonFnVars == <<sessVars, loopVars, ghVars, chatVars>>
nonChatVars == <<sessVars, loopVars, ghVars, fnVars>>

vars == <<sessVars, loopVars, ghVars, fnVars, chatVars>>

----------------------------------------------------------------------------
\* Coroutines of the event loop.

Main(s) == [kind |-> "main", s |-> s, k |-> 0]
Task(k) == [kind |-> "task", s |-> "-", k |-> k]
NoCo    == [kind |-> "none", s |-> "-", k |-> 0]

\* The loop is free and c is at the head of its ready queue.
Resumes(c) == running = NoCo /\ ready # <<>> /\ Head(ready) = c

\* c holds the loop.
Runs(c) == running = c

----------------------------------------------------------------------------
\* GatewayNotificationService

\* The methods the class defines (gateway_notification.py 20, 30, 36, 83).
NotifierMethods == {"__init__", "_get_client", "send_update", "close"}

\* Attribute lookup of a method on a notifier: AttributeError when absent.
HasMethod(m) == m \in NotifierMethods

\* The AsyncClients of a notifier that are not closed.
OpenClients(c) == {i \in 1..Len(c) : c[i] = "open"}

\* _get_client: a new AsyncClient when there is none or it is closed.
GetClientAlwaysNew(c) == Append(c, "open")
GetClient(c) ==
    IF c = <<>> \/ c[Len(c)] = "closed" THEN Append(c, "open") ELSE c

\* Looking a method up on the notifier: the exception raised, "-" for none.
AttrLookup(m) == IF HasMethod(m) THEN "-" ELSE "AttributeError"

\* GatewayNotificationService.close: aclose() only an open client.
NotifierClose(c) ==
    IF c # <<>> /\ c[Len(c)] = "open" THEN [c EXCEPT ![Len(c)] = "closed"] ELSE c

\* What ends the try block of send_update.
SendEvents == {"ok", "timeout", "http_error", "net_error", "invalid"}

\* The outcomes of client.post + raise_for_status.
PostOutcomes == {"ok", "timeout", "http_error", "net_error"}

\* The exception each event raises inside the try block ("-" : none).
RaisedBy(ev) ==
    CASE ev = "ok"         -> "-"
      [] ev = "timeout"    -> "ReadTimeout"
      [] ev = "http_error" -> "HTTPStatusError"
      [] ev = "net_error"  -> "ConnectError"
      [] ev = "invalid"    -> "ValidationError"

\* The classes an exception is an instance of (httpx / pydantic hierarchy).
ClassesOf(e) ==
    CASE e = "ReadTimeout"     -> {"ReadTimeout", "TimeoutException", "TransportError",
                                   "RequestError", "HTTPError", "Exception"}
      [] e = "HTTPStatusError" -> {"HTTPStatusError", "HTTPError", "Exception"}
      [] e = "ConnectError"    -> {"ConnectError", "NetworkError", "TransportError",
                                   "RequestError", "HTTPError", "Exception"}
      [] e = "ValidationError" -> {"ValidationError", "ValueError", "Exception"}
      [] e = "AttributeError"  -> {"AttributeError", "Exception"}
      [] e = "RuntimeError"    -> {"RuntimeError", "Exception"}
      [] e = "ValueError"      -> {"ValueError", "Exception"}
      [] e = "AgentError"      -> {"AgentError", "Exception"}
      [] e = "McpError"        -> {"McpError", "Exception"}
      [] e = "KeyError"        -> {"KeyError", "LookupError", "Exception"}
      [] e = "JSONDecodeError" -> {"JSONDecodeError", "ValueError", "Exception"}
      [] OTHER                 -> {}

\* The except clauses of send_update, in order.
SendUpdateHandlersNoCatchAll == <<"TimeoutException", "HTTPStatusError">>
SendUpdateHandlers == <<"TimeoutException", "HTTPStatusError", "Exception">>

\* send_update's result for an event ending its try block: True after a
\* successful POST, False from whichever except clause catches, and the
\* exception leaves the call when no clause does.
SendUpdateResult(ev) ==
    LET e == RaisedBy(ev)
        caught == \E i \in 1..Len(SendUpdateHandlers) :
                      SendUpdateHandlers[i] \in ClassesOf(e)
    IN  [outcome |-> ev,
         ret     |-> (e = "-"),
         raises  |-> (e # "-" /\ ~caught),
         posts   |-> IF ev = "invalid" THEN 0 ELSE 1]

\* Whether the receiver got the notification.  It did when the POST got a
\* response.  After a timeout or a transport error both are possible, and
\* send_update cannot tell: a read timeout or a read error is raised once the
\* request is out, a connect timeout or a refused connection before anything
\* was sent.
Delivered(ev) ==
    IF ev \in {"ok", "http_error"} THEN {TRUE} ELSE BOOLEAN

NoSend == [outcome |-> "none", ret |-> FALSE, raises |-> FALSE, posts |-> 0]
NoCtx  == [status |-> "-", complete |-> FALSE, valid |-> TRUE, cont |-> "-"]

NotificationMarkedComplete(status, complete, origin) ==
    [status |-> status, complete |-> TRUE, origin |-> origin]
Notification(status, complete, origin) ==
    [status |-> status, complete |-> complete, origin |-> origin]

Call(status, complete, late) ==
    [status |-> status, complete |-> complete, late |-> late]

----------------------------------------------------------------------------
\* MCPClient (core/mcp_client.py)

NoMcp == [client |-> FALSE, connected |-> FALSE, sessions |-> "none"]

\* MCPClient.create -> _auto_connect: create_all_sessions opens the sessions
\* and sets connected; any exception is swallowed and leaves connected False.
\* The instance is returned (and stored in the service) either way.
AutoConnect(ok) ==
    IF ok THEN [client |-> TRUE, connected |-> TRUE, sessions |-> "open"]
          ELSE [client |-> TRUE, connected |-> FALSE, sessions |-> "none"]

\* MCPClient.disconnect: `if self.client: pass', then connected = False.
\* The mcp_use sessions are left as they are.
MCPDisconnect(m) == [m EXCEPT !.connected = FALSE]

----------------------------------------------------------------------------
\* logging: MCPLogHandler.emit

LogLevels == {"DEBUG", "INFO"}
LevelNo(l) == IF l = "DEBUG" THEN 10 ELSE 20
INFO == 20

\* emit's filter: record.name == 'mcp_use' and record.levelno >= logging.INFO.
EmitSends(name, level) == name = "mcp_use" /\ LevelNo(level) >= INFO

\* Remove the first occurrence of h (Logger.removeHandler).
RECURSIVE RemoveHandler(_, _)
RemoveHandler(hs, h) ==
    IF hs = <<>> THEN <<>>
    ELSE IF Head(hs) = h THEN Tail(hs)
    ELSE <<Head(hs)>> \o RemoveHandler(Tail(hs), h)

\* `finally: mcp_logger.removeHandler(log_handler)' of run_with_streaming.
FinallyKeepsHandler(hs, h) == hs
FinallyRemoveHandler(hs, h) == RemoveHandler(hs, h)

----------------------------------------------------------------------------
\* The chat endpoints (app.py 89-159) have answered "Mensaje recibido" and
\* handed _process_<role>_feedback_async to BackgroundTasks for every session
\* of `present'; the event loop has these supervisors queued, nothing else.
QueuedIn(present) ==
    LET Rec[i \in 0..Len(Arrival)] ==
            IF i = 0 THEN <<>>
            ELSE IF Arrival[i] \in present THEN Append(Rec[i-1], Main(Arrival[i]))
            ELSE Rec[i-1]
    IN  Rec[Len(Arrival)]

SessInit(present) ==
    /\ role \in [Sessions -> Roles \cup {"none"}]
    /\ \A s \in Sessions : role[s] # "none" <=> s \in present
    /\ pc = [s \in Sessions |-> IF s \in present THEN "queued" ELSE "idle"]
    /\ running = NoCo
    /\ ready = QueuedIn(present)
    /\ mcp = [s \in Sessions |-> NoMcp]
    /\ agent = [s \in Sessions |-> FALSE]
    /\ handlers = <<>>
    /\ client = [s \in Sessions |-> <<>>]
    /\ closed = [s \in Sessions |-> FALSE]
    /\ sendCtx = [s \in Sessions |-> NoCtx]
    /\ sendRes = [s \in Sessions |-> "none"]
    /\ tasks = <<>>
    /\ logs = 0
    /\ faults = 0
    /\ calls = [s \in Sessions |-> <<>>]
    /\ posted = [s \in Sessions |-> <<>>]
    /\ lastSend = NoSend
    /\ exc = [s \in Sessions |-> "-"]
    /\ escaped = [s \in Sessions |-> FALSE]

\* Something may go wrong only while the budget lasts.
MayFail(ok) == ok \/ faults < MaxFaults
Count(ok) == IF ok THEN faults ELSE faults + 1

\* `await self.gateway_notifier.send_update(...)' in the supervisor coroutine:
\* enter the call with its arguments; cont is where the caller goes on.
CallSend(s, status, complete, valid, cont) ==
    /\ pc' = [pc EXCEPT ![s] = "send"]
    /\ sendCtx' = [sendCtx EXCEPT ![s] = [status |-> status, complete |-> complete,
                                          valid |-> valid, cont |-> cont]]

----------------------------------------------------------------------------
\* The supervisor starts: FeedbackGeneralService(), feedback_<role>_streaming,
\* _initialize, MCPClient.create, _auto_connect.  With a configuration
\* (config: load_config and from_dict succeed) it runs up to `await
\* self.client.create_all_sessions()' and suspends there.  Without one,
\* _auto_connect swallows the exception before any await: the supervisor keeps
\* the loop, _initialize finds connected False and raises RuntimeError.
SupervisorBegin(s, config) ==
    /\ Resumes(Main(s))
    /\ pc[s] = "queued"
    /\ MayFail(config)
    /\ faults' = Count(config)
    /\ ready' = Tail(ready)
    /\ IF config
         THEN /\ pc' = [pc EXCEPT ![s] = "connecting"]
              /\ UNCHANGED <<running, mcp, exc>>
         ELSE /\ pc' = [pc EXCEPT ![s] = "sup_except"]
              /\ running' = Main(s)
              /\ mcp' = [mcp EXCEPT ![s] = AutoConnect(FALSE)]
              /\ exc' = [exc EXCEPT ![s] = "RuntimeError"]
    /\ UNCHANGED nonSessVars
    /\ UNCHANGED <<role, agent, handlers, client, closed, sendCtx,
                   sendRes, tasks, logs, calls, posted, lastSend, escaped>>

\* create_all_sessions ends: the sessions are open, or it threw.
ConnectIO(s, ok) ==
    /\ running = NoCo
    /\ pc[s] = "connecting"
    /\ MayFail(ok)
    /\ faults' = Count(ok)
    /\ pc' = [pc EXCEPT ![s] = IF ok THEN "connect_ok" ELSE "connect_fail"]
    /\ ready' = Append(ready, Main(s))
    /\ UNCHANGED nonSessVars
    /\ UNCHANGED <<role, running, mcp, agent, handlers, client, closed, sendCtx,
                   sendRes, tasks, logs, calls, posted, lastSend, exc, escaped>>

\* _auto_connect returns; _initialize checks mcp_client.connected and raises
\* RuntimeError when it is False.  _initialize is called outside the try of
\* feedback_<role>_streaming, so the exception reaches the supervisor.
AutoConnectDone(s) ==
    /\ Resumes(Main(s))
    /\ pc[s] \in {"connect_ok", "connect_fail"}
    /\ ready' = Tail(ready)
    /\ running' = Main(s)
    /\ LET m == AutoConnect(pc[s] = "connect_ok") IN
        /\ mcp' = [mcp EXCEPT ![s] = m]
        /\ pc' = [pc EXCEPT ![s] = IF m.connected THEN "create_llm" ELSE "sup_except"]
        /\ exc' = [exc EXCEPT ![s] = IF m.connected THEN @ ELSE "RuntimeError"]
    /\ UNCHANGED nonSessVars
    /\ UNCHANGED <<role, agent, handlers, client, closed, sendCtx, sendRes, tasks,
                   logs, faults, calls, posted, lastSend, escaped>>

\* LLMFactory.create_llm (raises ValueError without an API key), then MCPAgent
\* and StreamingMCPAgent are built.
CreateLLM(s, ok) ==
    /\ Runs(Main(s))
    /\ pc[s] = "create_llm"
    /\ MayFail(ok)
    /\ faults' = Count(ok)
    /\ agent' = [agent EXCEPT ![s] = ok]
    /\ pc' = [pc EXCEPT ![s] = IF ok THEN "rws_enter" ELSE "sup_except"]
    /\ exc' = [exc EXCEPT ![s] = IF ok THEN @ ELSE "ValueError"]
    /\ UNCHANGED nonSessVars
    /\ UNCHANGED <<role, running, ready, mcp, handlers, client, closed, sendCtx,
                   sendRes, tasks, logs, calls, posted, lastSend, escaped>>

\* run_with_streaming: addHandler on the shared logger, then the initial
\* "processing" notification.
RunWithStreamingEnter(s) ==
    /\ Runs(Main(s))
    /\ pc[s] = "rws_enter"
    /\ handlers' = Append(handlers, s)
    /\ CallSend(s, "processing", FALSE, TRUE, "agent_start")
    /\ UNCHANGED nonSessVars
    /\ UNCHANGED <<role, running, ready, mcp, agent, client, closed, sendRes, tasks,
                   logs, faults, calls, posted, lastSend, exc, escaped>>

\* send_update, from its entry to `await client.post(...)': _get_client, then
\* LLMStreamingRequest(...), which raises ValidationError for a message that
\* is not a str; the call then returns False without ever suspending.
SendUpdateBegin(s) ==
    /\ Runs(Main(s))
    /\ pc[s] = "send"
    /\ calls' = [calls EXCEPT ![s] =
                    Append(@, Call(sendCtx[s].status, sendCtx[s].complete, closed[s]))]
    /\ client' = [client EXCEPT ![s] = GetClient(@)]
    /\ IF sendCtx[s].valid
         THEN /\ pc' = [pc EXCEPT ![s] = "posting"]
              /\ running' = NoCo
              /\ UNCHANGED lastSend
         ELSE /\ pc' = [pc EXCEPT ![s] = sendCtx[s].cont]
              /\ lastSend' = SendUpdateResult("invalid")
              /\ UNCHANGED running
    /\ UNCHANGED nonSessVars
    /\ UNCHANGED <<role, ready, mcp, agent, handlers, closed, sendCtx, sendRes, tasks,
                   logs, faults, posted, exc, escaped>>

\* The supervisor's POST ends: a response arrived (2xx or not), or it timed
\* out or failed on the network.
PostIO(s, ev, got) ==
    /\ running = NoCo
    /\ pc[s] = "posting"
    /\ ev \in PostOutcomes
    /\ got \in Delivered(ev)
    /\ MayFail(ev = "ok")
    /\ faults' = Count(ev = "ok")
    /\ sendRes' = [sendRes EXCEPT ![s] = ev]
    /\ posted' = IF got
                   THEN [posted EXCEPT ![s] =
                           Append(@, Notification(sendCtx[s].status,
                                                  sendCtx[s].complete, s))]
                   ELSE posted
    /\ pc' = [pc EXCEPT ![s] = "post_done"]
    /\ ready' = Append(ready, Main(s))
    /\ UNCHANGED nonSessVars
    /\ UNCHANGED <<role, running, mcp, agent, handlers, client, closed, sendCtx,
                   tasks, logs, calls, lastSend, exc, escaped>>

\* send_update from the POST's end to its return.
SendUpdateEnd(s) ==
    /\ Resumes(Main(s))
    /\ pc[s] = "post_done"
    /\ ready' = Tail(ready)
    /\ running' = Main(s)
    /\ lastSend' = SendUpdateResult(sendRes[s])
    /\ sendRes' = [sendRes EXCEPT ![s] = "none"]
    /\ pc' = [pc EXCEPT ![s] = sendCtx[s].cont]
    /\ UNCHANGED nonSessVars
    /\ UNCHANGED <<role, mcp, agent, handlers, client, closed, sendCtx, tasks, logs,
                   faults, calls, posted, exc, escaped>>

\* `result = await self.agent.run(prompt)': the agent awaits its model.
AgentRunBegin(s) ==
    /\ Runs(Main(s))
    /\ pc[s] = "agent_start"
    /\ pc' = [pc EXCEPT ![s] = "agent_wait"]
    /\ running' = NoCo
    /\ UNCHANGED nonSessVars
    /\ UNCHANGED <<role, ready, mcp, agent, handlers, client, closed, sendCtx,
                   sendRes, tasks, logs, faults, calls, posted, lastSend, exc,
                   escaped>>

\* What the agent awaited (a model or tool reply) is there.
AgentIO(s) ==
    /\ running = NoCo
    /\ pc[s] = "agent_wait"
    /\ pc' = [pc EXCEPT ![s] = "agent_ready"]
    /\ ready' = Append(ready, Main(s))
    /\ UNCHANGED nonSessVars
    /\ UNCHANGED <<role, running, mcp, agent, handlers, client, closed, sendCtx,
                   sendRes, tasks, logs, faults, calls, posted, lastSend, exc,
                   escaped>>

AgentResume(s) ==
    /\ Resumes(Main(s))
    /\ pc[s] = "agent_ready"
    /\ ready' = Tail(ready)
    /\ running' = Main(s)
    /\ pc' = [pc EXCEPT ![s] = "agent_running"]
    /\ UNCHANGED nonSessVars
    /\ UNCHANGED <<role, mcp, agent, handlers, client, closed, sendCtx, sendRes,
                   tasks, logs, faults, calls, posted, lastSend, exc, escaped>>

\* The agent logs a record on 'mcp_use': the logger calls emit of every
\* handler attached to it, in order; emit makes a task that will call
\* send_update on the handler's own notifier, session and callback URL.
AgentLog(s, level) ==
    /\ Runs(Main(s))
    /\ pc[s] \in {"agent_start", "agent_running"}
    /\ logs < MaxLogs
    /\ logs' = logs + 1
    /\ LET n == IF EmitSends("mcp_use", level) THEN Len(handlers) ELSE 0 IN
        /\ tasks' = tasks \o [i \in 1..n |->
                                [owner |-> handlers[i], origin |-> s, st |-> "ready"]]
        /\ ready' = ready \o [i \in 1..n |-> Task(Len(tasks) + i)]
    /\ UNCHANGED nonSessVars
    /\ UNCHANGED <<pc, role, running, mcp, agent, handlers, client, closed, sendCtx,
                   sendRes, faults, calls, posted, lastSend, exc, escaped>>

\* A record logged on 'mcp_use' by an agent that belongs to no streaming
\* session: the agent of feedback_general_coordinador / _profesor, run by the
\* endpoints that do not stream.  The logger is the same, so the handlers of
\* the sessions inside run_with_streaming get the record.
OtherAgentLog(level) ==
    /\ running = NoCo
    /\ logs < MaxLogs
    /\ logs' = logs + 1
    /\ LET n == IF EmitSends("mcp_use", level) THEN Len(handlers) ELSE 0 IN
        /\ tasks' = tasks \o [i \in 1..n |->
                                [owner |-> handlers[i], origin |-> "elsewhere",
                                 st |-> "ready"]]
        /\ ready' = ready \o [i \in 1..n |-> Task(Len(tasks) + i)]
    /\ UNCHANGED nonSessVars
    /\ UNCHANGED <<pc, role, running, mcp, agent, handlers, client, closed, sendCtx,
                   sendRes, faults, calls, posted, lastSend, exc, escaped>>

\* The agent awaits again (its next model or tool call).
AgentAwait(s) ==
    /\ Runs(Main(s))
    /\ pc[s] = "agent_running"
    /\ pc' = [pc EXCEPT ![s] = "agent_wait"]
    /\ running' = NoCo
    /\ UNCHANGED nonSessVars
    /\ UNCHANGED <<role, ready, mcp, agent, handlers, client, closed, sendCtx,
                   sendRes, tasks, logs, faults, calls, posted, lastSend, exc,
                   escaped>>

\* agent.run returns its result (isStr: the result is a str); run_with_streaming
\* sends it with status "completed", isComplete True.
AgentReturn(s, isStr) ==
    /\ Runs(Main(s))
    /\ pc[s] = "agent_running"
    /\ MayFail(isStr)
    /\ faults' = Count(isStr)
    /\ CallSend(s, "completed", TRUE, isStr, "rws_return")
    /\ UNCHANGED nonSessVars
    /\ UNCHANGED <<role, running, ready, mcp, agent, handlers, client, closed,
                   sendRes, tasks, logs, calls, posted, lastSend, exc, escaped>>

\* agent.run raises; the except block of run_with_streaming sends str(e) with
\* status "completed", isComplete True, and re-raises.
AgentRaise(s) ==
    /\ Runs(Main(s))
    /\ pc[s] = "agent_running"
    /\ MayFail(FALSE)
    /\ faults' = Count(FALSE)
    /\ exc' = [exc EXCEPT ![s] = "AgentError"]
    /\ CallSend(s, "completed", TRUE, TRUE, "rws_reraise")
    /\ UNCHANGED nonSessVars
    /\ UNCHANGED <<role, running, ready, mcp, agent, handlers, client, closed,
                   sendRes, tasks, logs, calls, posted, lastSend, escaped>>

\* run_with_streaming returns: `finally' removes the handler; the result goes
\* back through feedback_<role>_streaming to the supervisor.  The coordinador
\* supervisor sends the result once more ("ENVIANDO NOTIFICACION FINAL"); the
\* profesor supervisor goes straight to its cleanup.
RunWithStreamingReturn(s) ==
    /\ Runs(Main(s))
    /\ pc[s] = "rws_return"
    /\ handlers' = FinallyRemoveHandler(handlers, s)
    /\ IF role[s] = "coordinador"
         THEN CallSend(s, "completed", TRUE, sendCtx[s].valid, "sup_finally")
         ELSE /\ pc' = [pc EXCEPT ![s] = "sup_finally"]
              /\ UNCHANGED sendCtx
    /\ UNCHANGED nonSessVars
    /\ UNCHANGED <<role, running, ready, mcp, agent, client, closed, sendRes, tasks,
                   logs, faults, calls, posted, lastSend, exc, escaped>>

\* run_with_streaming re-raises: `finally' removes the handler; the except
\* block of feedback_<role>_streaming calls gateway_notifier.send_error_update,
\* which the class does not define: AttributeError is raised there and reaches
\* the supervisor in place of the agent's exception.
RunWithStreamingReraise(s) ==
    /\ Runs(Main(s))
    /\ pc[s] = "rws_reraise"
    /\ AttrLookup("send_error_update") # "-"
    /\ handlers' = FinallyRemoveHandler(handlers, s)
    /\ exc' = [exc EXCEPT ![s] = AttrLookup("send_error_update")]
    /\ pc' = [pc EXCEPT ![s] = "sup_except"]
    /\ UNCHANGED nonSessVars
    /\ UNCHANGED <<role, running, ready, mcp, agent, client, closed, sendCtx,
                   sendRes, tasks, logs, faults, calls, posted, lastSend, escaped>>

\* The supervisor's `except Exception'.
OuterExceptCatches(e) == "Exception" \in ClassesOf(e)

\* The bare `except:' around the supervisor's error notification.
ExceptHTTPErrorCatches(e) == "HTTPError" \in ClassesOf(e)
InnerExceptCatches(e) == TRUE

\* The supervisor's handler: `if service and service.gateway_notifier', then
\* inside try/except: the coordinador supervisor calls send_update with status
\* "error", the profesor supervisor calls send_error_update (AttributeError,
\* swallowed by the bare except).
SupervisorExcept(s) ==
    /\ Runs(Main(s))
    /\ pc[s] = "sup_except"
    /\ IF ~OuterExceptCatches(exc[s])
         THEN /\ pc' = [pc EXCEPT ![s] = "sup_finally"]
              /\ escaped' = [escaped EXCEPT ![s] = TRUE]
              /\ UNCHANGED <<sendCtx, exc>>
         ELSE IF role[s] = "coordinador"
         THEN /\ CallSend(s, "error", TRUE, TRUE, "sup_finally")
              /\ UNCHANGED <<escaped, exc>>
         ELSE /\ AttrLookup("send_error_update") # "-"
              /\ exc' = [exc EXCEPT ![s] = AttrLookup("send_error_update")]
              /\ escaped' = [escaped EXCEPT ![s] =
                                ~InnerExceptCatches(AttrLookup("send_error_update"))]
              /\ pc' = [pc EXCEPT ![s] = "sup_finally"]
              /\ UNCHANGED sendCtx
    /\ UNCHANGED nonSessVars
    /\ UNCHANGED <<role, running, ready, mcp, agent, handlers, client, closed,
                   sendRes, tasks, logs, faults, calls, posted, lastSend>>

\* `finally: if service: await service.close()': MCPClient.disconnect, then
\* GatewayNotificationService.close, which awaits aclose() of an open client.
\* The client is closed at once; aclose may then suspend (suspends: it has a
\* connection to shut), and close() has not returned while it does.  When it
\* does not suspend, or there is no open client, the supervisor function ends.
SupervisorFinally(s, suspends) ==
    /\ Runs(Main(s))
    /\ pc[s] = "sup_finally"
    /\ mcp' = [mcp EXCEPT ![s] = IF @.client THEN MCPDisconnect(@) ELSE @]
    /\ client' = [client EXCEPT ![s] = NotifierClose(@)]
    /\ running' = NoCo
    /\ IF suspends /\ OpenClients(client[s]) # {}
         THEN /\ pc' = [pc EXCEPT ![s] = "closing"]
              /\ UNCHANGED closed
         ELSE /\ pc' = [pc EXCEPT ![s] = "done"]
              /\ closed' = [closed EXCEPT ![s] = TRUE]
    /\ UNCHANGED nonSessVars
    /\ UNCHANGED <<role, ready, agent, handlers, sendCtx, sendRes, tasks, logs,
                   faults, calls, posted, lastSend, exc, escaped>>

\* What aclose() waited for is there.
CloseIO(s) ==
    /\ running = NoCo
    /\ pc[s] = "closing"
    /\ pc' = [pc EXCEPT ![s] = "close_done"]
    /\ ready' = Append(ready, Main(s))
    /\ UNCHANGED nonSessVars
    /\ UNCHANGED <<role, running, mcp, agent, handlers, client, closed, sendCtx,
                   sendRes, tasks, logs, faults, calls, posted, lastSend, exc,
                   escaped>>

\* aclose() and close() return; the supervisor function ends.
SupervisorClosed(s) ==
    /\ Resumes(Main(s))
    /\ pc[s] = "close_done"
    /\ ready' = Tail(ready)
    /\ closed' = [closed EXCEPT ![s] = TRUE]
    /\ pc' = [pc EXCEPT ![s] = "done"]
    /\ UNCHANGED nonSessVars
    /\ UNCHANGED <<role, running, mcp, agent, handlers, client, sendCtx, sendRes,
                   tasks, logs, faults, calls, posted, lastSend, exc, escaped>>

----------------------------------------------------------------------------
\* The tasks made by MCPLogHandler.emit: one send_update call each, not awaited
\* by anyone.

\* A task starts: send_update up to `await client.post(...)' (the message is
\* record.getMessage(), a str).
TaskBegin ==
    \E k \in 1..Len(tasks) :
        /\ Resumes(Task(k))
        /\ tasks[k].st = "ready"
        /\ ready' = Tail(ready)
        /\ LET o == tasks[k].owner IN
            /\ calls' = [calls EXCEPT ![o] =
                            Append(@, Call("processing", FALSE, closed[o]))]
            /\ client' = [client EXCEPT ![o] = GetClient(@)]
        /\ tasks' = [tasks EXCEPT ![k].st = "posting"]
        /\ UNCHANGED nonSessVars
        /\ UNCHANGED <<pc, role, running, mcp, agent, handlers, closed, sendCtx,
                       sendRes, logs, faults, posted, lastSend, exc, escaped>>

\* A task's POST ends.
TaskPostIO(ev, got) ==
    \E k \in 1..Len(tasks) :
        /\ running = NoCo
        /\ tasks[k].st = "posting"
        /\ ev \in PostOutcomes
        /\ got \in Delivered(ev)
        /\ MayFail(ev = "ok")
        /\ faults' = Count(ev = "ok")
        /\ tasks' = [tasks EXCEPT ![k].st = ev]
        /\ posted' = IF got
                       THEN [posted EXCEPT ![tasks[k].owner] =
                               Append(@, Notification("processing", FALSE,
                                                      tasks[k].origin))]
                       ELSE posted
        /\ ready' = Append(ready, Task(k))
        /\ UNCHANGED nonSessVars
        /\ UNCHANGED <<pc, role, running, mcp, agent, handlers, client, closed,
                       sendCtx, sendRes, logs, calls, lastSend, exc, escaped>>

\* A task's send_update returns; nobody reads the result.
TaskEnd ==
    \E k \in 1..Len(tasks) :
        /\ Resumes(Task(k))
        /\ tasks[k].st \in PostOutcomes
        /\ ready' = Tail(ready)
        /\ lastSend' = SendUpdateResult(tasks[k].st)
        /\ tasks' = [tasks EXCEPT ![k].st = "done"]
        /\ UNCHANGED nonSessVars
        /\ UNCHANGED <<pc, role, running, mcp, agent, handlers, client, closed,
                       sendCtx, sendRes, logs, faults, calls, posted, exc, escaped>>

----------------------------------------------------------------------------
\* GitHubMCPClient: connect, disconnect, call_tool / execute_tool_request

\* The tools the GitHub MCP server lists, and the names a caller may ask for.
ServerTools == {"get_file_contents", "search_repositories"}
ToolNames == ServerTools \cup {"delete_everything"}

\* How many provider calls (session.call_tool) are followed.
MaxCalls == 2

\* What session.call_tool does: it raises, or returns a reply
\*   no_content   content is None or []
\*   no_text      content[0] has no 'text' (an image or resource item)
\*   json_object  content[0].text is a JSON object without "error"
\*   json_error   content[0].text is a JSON object with an "error" key
\*   json_array   content[0].text is JSON but not an object
\*   plain_text   content[0].text is not JSON.
ProviderOutcomes ==
    {"raises", "no_content", "no_text", "json_object", "json_error",
     "json_array", "plain_text"}

\* The exception raised inside the try block of call_tool ("-" : none).
CallToolRaises(outcome) ==
    CASE outcome = "raises"     -> "McpError"
      [] outcome = "no_text"    -> "KeyError"
      [] outcome = "plain_text" -> "JSONDecodeError"
      [] OTHER                  -> "-"

\* The value call_tool returns: kind says which return statement, error
\* whether the value is a mapping with an "error" key, mapping whether it is
\* a mapping at all.
ToolResult(kind, mapping, error) == [kind |-> kind, mapping |-> mapping, error |-> error]

\* The guard in front of the provider call: the name must be registered.
RegisteredAny(tool_name, tools) == TRUE
Registered(tool_name, tools) == tool_name \in tools

\* call_tool: the value returned, whether session.call_tool was reached and
\* whether an exception left the call.
CallTool(connected, session, tools, tool_name, outcome) ==
    IF ~connected \/ session = "none"
    THEN [result |-> ToolResult("no_connection", TRUE, TRUE),
          reached |-> FALSE, raised |-> FALSE]
    ELSE IF ~Registered(tool_name, tools)
    THEN [result |-> ToolResult("not_available", TRUE, TRUE),
          reached |-> FALSE, raised |-> FALSE]
    ELSE LET e == CallToolRaises(outcome) IN
         IF e = "-"
         THEN [result |-> CASE outcome = "no_content"  -> ToolResult("no_content", TRUE, TRUE)
                            [] outcome = "json_object" -> ToolResult("json", TRUE, FALSE)
                            [] outcome = "json_error"  -> ToolResult("json", TRUE, TRUE)
                            [] outcome = "json_array"  -> ToolResult("json", FALSE, FALSE),
               reached |-> TRUE, raised |-> FALSE]
         ELSE IF "JSONDecodeError" \in ClassesOf(e)
         THEN [result |-> ToolResult("text", TRUE, FALSE),
               reached |-> TRUE, raised |-> FALSE]
         ELSE IF "Exception" \in ClassesOf(e)
         THEN [result |-> ToolResult("exception", TRUE, TRUE),
               reached |-> TRUE, raised |-> FALSE]
         ELSE [result |-> ToolResult("-", FALSE, FALSE),
               reached |-> TRUE, raised |-> TRUE]

\* execute_tool_request hands over to call_tool.
ExecuteToolRequest(connected, session, tools, tool_name, outcome) ==
    CallTool(connected, session, tools, tool_name, outcome)

NoCall == [name |-> "-", connected |-> FALSE, session |-> "none",
           registered |-> FALSE, outcome |-> "-",
           result |-> ToolResult("-", FALSE, FALSE),
           reached |-> FALSE, raised |-> FALSE]

\* GitHubMCPClient.__init__
GhInit ==
    /\ gh_connected = FALSE
    /\ gh_session = "none"
    /\ available_tools = {}
    /\ providerCalls = <<>>
    /\ lastCall = NoCall

\* connect, on a client in any state (nothing tests connected): "ok", or an
\* exception while opening the stdio channel ("stdio"), or after the session
\* object was stored: initialize fails ("handshake"), or the session is
\* initialised and list_tools fails ("list_tools").  Every exception is
\* swallowed and False returned; the fields assigned before it keep their new
\* values, the others their old ones.  chat.py runs connect from its only
\* task, so no other coroutine sees the fields between its awaits.
GhConnect(how, listed) ==
    /\ how \in {"ok", "stdio", "handshake", "list_tools"}
    /\ listed \in SUBSET ServerTools
    /\ gh_session' = CASE how = "ok"         -> "live"
                       [] how = "stdio"      -> gh_session
                       [] how = "handshake"  -> "dead"
                       [] how = "list_tools" -> "live"
    /\ available_tools' = IF how = "ok" THEN listed ELSE available_tools
    /\ gh_connected' = IF how = "ok" THEN TRUE ELSE gh_connected
    /\ UNCHANGED <<providerCalls, lastCall>>
    /\ UNCHANGED nonGhVars

\* disconnect: the contexts are left and connected is cleared; when leaving a
\* context raises, the exception is swallowed and connected stays as it was.
GhDisconnect(ok) ==
    /\ gh_session # "none"
    /\ gh_session' = "dead"
    /\ gh_connected' = IF ok THEN FALSE ELSE gh_connected
    /\ UNCHANGED <<available_tools, providerCalls, lastCall>>
    /\ UNCHANGED nonGhVars

\* One execute_tool_request / call_tool call.  A dead session can only raise.
GhCallTool(tool_name, outcome) ==
    /\ tool_name \in ToolNames
    /\ outcome \in ProviderOutcomes
    /\ gh_session = "dead" => outcome = "raises"
    /\ Len(providerCalls) < MaxCalls
    /\ LET r == ExecuteToolRequest(gh_connected, gh_session, available_tools,
                                   tool_name, outcome) IN
        /\ lastCall' = [name |-> tool_name, connected |-> gh_connected,
                        session |-> gh_session,
                        registered |-> tool_name \in available_tools,
                        outcome |-> IF r.reached THEN outcome ELSE "-",
                        result |-> r.result, reached |-> r.reached,
                        raised |-> r.raised]
        /\ providerCalls' = IF r.reached THEN Append(providerCalls, tool_name)
                            ELSE providerCalls
    /\ UNCHANGED <<gh_connected, gh_session, available_tools>>
    /\ UNCHANGED nonGhVars

NextGh ==
    \/ \E how \in {"ok", "stdio", "handshake", "list_tools"},
          listed \in SUBSET ServerTools :
          GhConnect(how, listed)
    \/ \E ok \in BOOLEAN : GhDisconnect(ok)
    \/ \E n \in ToolNames, o \in ProviderOutcomes : GhCallTool(n, o)

----------------------------------------------------------------------------
\* DeepSeekClient: the steps of one tool execution, as functions

\* No function applied yet; the argument is still empty.
FnInit == fn = "-" /\ fnArg = <<>> /\ fnOut = "-"

\* The cap on a serialized tool result and the length of the text appended to
\* a cut one ("\n... (resultado truncado por tamaño)").
Cap == 5000
SuffixLen == 36

\* Tool results near the cap: a JSON string (entries = 0, body = its length
\* with the quotes) or a flat object of `entries' members whose serialized
\* members ("key": value) have `body' characters together.
MaxEntries == 2
MaxSlack == 8
SizedResults == [entries : 0..MaxEntries, body : (Cap - MaxSlack)..(Cap + MaxSlack)]

\* len(json.dumps(result)): members joined by ", " inside "{" "}".
JsonDumps(r) ==
    IF r.entries = 0 THEN r.body ELSE r.body + 2 * (r.entries - 1) + 2

\* len(json.dumps(result, indent=2)): every member on a line of its own,
\* indented by two blanks, "}" on the last line.
JsonDumpsIndent2(r) ==
    IF r.entries = 0 THEN r.body ELSE r.body + 3 * r.entries + (r.entries - 1) + 3

\* The length the truncation stores in original_length: json.dumps is called
\* again, without indent.
OriginalLength(r) == JsonDumps(r)

\* Lines 190-194: what is stored for a tool result.
TruncateResult(r) ==
    LET result_str == JsonDumpsIndent2(r) IN
    IF result_str > Cap
    THEN [truncated |-> TRUE, result_str |-> Cap + SuffixLen,
          original_length |-> OriginalLength(r), result |-> "-"]
    ELSE [truncated |-> FALSE, result_str |-> result_str,
          original_length |-> 0, result |-> r]

Truncate ==
    /\ fn = "-"
    /\ fnArg = <<>>
    /\ \E r \in SizedResults :
          /\ fnArg' = r
          /\ fnOut' = TruncateResult(r)
    /\ fn' = "truncate"
    /\ UNCHANGED nonFnVars

\* A reply as _parse_all_tool_requests reads it, line by line.  A line is
\*   "open"   a line containing ```json          "close"  a line with ``` only
\*   "req1", "req2"  a one-line request object
\*            {"tool_request": {"tool_name": ..., "arguments": {...}}}
\*   "obj"    a one-line object without tool_request, {"reason": "x"}
\*   "num"    a JSON value that is no container, 42
\*   "prose"  words without braces, not JSON.
LineKinds ==
    {"open", "close", "req1", "req2", "reqNoName", "obj", "num", "prose"}
MaxLines == 6

\* The lines that decode to a mapping with the key "tool_request", and the
\* value under that key: 1 and 2 are requests with tool_name and an
\* arguments object, 3 is a mapping {"reason": ...} with neither.
IsRequestLine(l) == l \in {"req1", "req2", "reqNoName"}
RequestOf(l) ==
    CASE l = "req1"      -> 1
      [] l = "req2"      -> 2
      [] l = "reqNoName" -> 3

\* What the loop reads of a request: tool_request["tool_name"] and
\* tool_request["arguments"].
HasToolName(r) == r \in {1, 2}

\* json.loads of the stripped lines between two fences: one line decodes to
\* what it is, several lines joined by "\n" are never one JSON value.
JsonLoads(cur) ==
    IF Len(cur) = 1 /\ cur[1] # "prose" THEN cur[1] ELSE "JSONDecodeError"

\* How a fenced request is added to tool_requests.
PrependRequest(out, r) == <<r>> \o out
AppendRequest(out, r) == Append(out, r)

\* The end of a fenced block (lines 439-449): an empty block is passed over,
\* an undecodable one skipped; `"tool_request" in parsed' raises TypeError
\* for a number, which leaves the try block of _parse_all_tool_requests.
CloseBlock(cur, out) ==
    IF cur = <<>> THEN [out |-> out, error |-> FALSE]
    ELSE LET parsed == JsonLoads(cur) IN
         IF parsed = "JSONDecodeError" THEN [out |-> out, error |-> FALSE]
         ELSE IF parsed = "num" THEN [out |-> out, error |-> TRUE]
         ELSE IF IsRequestLine(parsed)
         THEN [out |-> AppendRequest(out, RequestOf(parsed)), error |-> FALSE]
         ELSE [out |-> out, error |-> FALSE]

\* Method 1 (lines 430-452): the loop over the lines from line i on.
RECURSIVE ParseFenced(_, _, _, _, _)
ParseFenced(lines, i, in_json_block, current_json, out) ==
    IF i > Len(lines) THEN [out |-> out, error |-> FALSE]
    ELSE IF lines[i] = "open"
    THEN ParseFenced(lines, i + 1, TRUE, <<>>, out)
    ELSE IF lines[i] = "close" /\ in_json_block
    THEN LET c == CloseBlock(current_json, out) IN
         IF c.error THEN c
         ELSE ParseFenced(lines, i + 1, FALSE, <<>>, c.out)
    ELSE IF in_json_block
    THEN ParseFenced(lines, i + 1, TRUE, Append(current_json, lines[i]), out)
    ELSE ParseFenced(lines, i + 1, FALSE, current_json, out)

\* Method 2 (lines 455-466): the objects the pattern \{(?:[^{}]|{[^{}]*})*\}
\* finds, decoded.  It allows one level of nesting: in a request line with an
\* arguments object it finds the inner {"tool_name": ..., "arguments": {...}},
\* which has no tool_request; an "obj" line and a request without an object
\* inside its tool_request are found whole.
FoundWhole(l) == l \in {"obj", "reqNoName"}
ParseObjects(lines) ==
    LET found == SelectSeq(lines, LAMBDA l : FoundWhole(l) /\ IsRequestLine(l))
    IN  [k \in 1..Len(found) |-> RequestOf(found[k])]

\* Method 3, _parse_tool_request: json.loads of the text from the first "{"
\* to the last "}".  It decodes only when one line holds all the braces.
ParseToolRequest(lines) ==
    LET braced == SelectSeq(lines, LAMBDA l : IsRequestLine(l) \/ l = "obj") IN
    IF Len(braced) = 1 /\ IsRequestLine(braced[1])
    THEN <<RequestOf(braced[1])>> ELSE <<>>

\* _parse_all_tool_requests on a text: the requests returned, in order.
ParseAllToolRequestsTextObjectsFirst(lines) ==
    LET m1 == ParseFenced(lines, 1, FALSE, <<>>, <<>>) IN
    IF ParseObjects(lines) # <<>> THEN ParseObjects(lines)
    ELSE IF m1.error \/ m1.out # <<>> THEN m1.out
    ELSE ParseToolRequest(lines)
ParseAllToolRequestsText(lines) ==
    LET m1 == ParseFenced(lines, 1, FALSE, <<>>, <<>>) IN
    IF m1.error \/ m1.out # <<>> THEN m1.out
    ELSE IF ParseObjects(lines) # <<>> THEN ParseObjects(lines)
    ELSE ParseToolRequest(lines)

\* The reply to parse gets one more line.
ReplyLine(l) ==
    /\ fn = "-"
    /\ l \in LineKinds
    /\ Len(fnArg) < MaxLines
    /\ fnArg' = Append(fnArg, l)
    /\ UNCHANGED <<fn, fnOut>>
    /\ UNCHANGED nonFnVars

\* _parse_all_tool_requests is applied to the reply.
ParseAll ==
    /\ fn = "-"
    /\ fn' = "parse"
    /\ fnOut' = ParseAllToolRequestsText(fnArg)
    /\ UNCHANGED fnArg
    /\ UNCHANGED nonFnVars

\* The reply of the classification call: None (none is TRUE), or a text as a
\* sequence of words ("" is the text without words).
EvalWords == {"ERROR", "error", "Error", "errores", "EXITO", "ok"}
MaxWords == 2
EvalReplies ==
    {[none |-> TRUE, words |-> <<>>]} \cup
    {[none |-> FALSE, words |-> w] : w \in UNION {[1..n -> EvalWords] : n \in 0..MaxWords}}

\* str.upper() of a word.
SameCase(w) == w
Upper(w) ==
    CASE w \in {"ERROR", "error", "Error"} -> "ERROR"
      [] w = "errores"                     -> "ERRORES"
      [] w = "EXITO"                       -> "EXITO"
      [] w = "ok"                          -> "OK"

\* "ERROR" in evaluation_response.strip().upper()
HasErrorToken(reply) ==
    \E k \in 1..Len(reply.words) : Upper(reply.words[k]) \in {"ERROR", "ERRORES"}

\* The substrings the fallbacks look for in str(result).lower().
ErrorIndicators ==
    {"error", "missing", "not found", "denied", "forbidden", "invalid", "failed",
     "unable"}
NoReplyIndicators == {"missing", "not found"}

\* A tool result as the classifier sees it: whether it is a dict, whether
\* "error" is one of its keys, and which indicators occur in its text.  A
\* dict with the key "error" has "error" in its text.
MaxIndicators == 1
EvalResults ==
    {r \in [isDict : BOOLEAN, errorKey : BOOLEAN, text : SUBSET ErrorIndicators] :
        /\ Cardinality(r.text) <= MaxIndicators
        /\ r.errorKey => r.isDict /\ "error" \in r.text}

\* _llm_evaluate_result.  request_ok: tool_request has tool_name and
\* arguments; otherwise building the prompt raises KeyError and the except
\* branch decides, without a model call.
LlmEvaluateResult(request_ok, result, reply) ==
    IF ~request_ok
    THEN [is_error |-> result.text \cap ErrorIndicators # {},
          branch |-> "exception", calls |-> 0]
    ELSE IF ~reply.none /\ reply.words # <<>>
    THEN [is_error |-> HasErrorToken(reply), branch |-> "reply", calls |-> 1]
    ELSE [is_error |-> IF result.isDict
                         THEN result.errorKey \/ result.text \cap NoReplyIndicators # {}
                         ELSE FALSE,
          branch |-> "no_reply", calls |-> 1]

Evaluate ==
    /\ fn = "-"
    /\ fnArg = <<>>
    /\ \E request_ok \in BOOLEAN, result \in EvalResults, reply \in EvalReplies :
          /\ fnArg' = [request_ok |-> request_ok, result |-> result, reply |-> reply]
          /\ fnOut' = LlmEvaluateResult(request_ok, result, reply)
    /\ fn' = "evaluate"
    /\ UNCHANGED nonFnVars

----------------------------------------------------------------------------
\* DeepSeekClient: chat_with_tools and _process_tools_autonomously

\* max_iterations, as chat_with_tools passes it.
MaxIterations == 10

\* How many tool requests one model reply holds at most.
MaxReqs == 2

\* A model reply, by what the code looks at: None, "" or a text with
\*   marker  "tool_request" in text        ob  "{" in text     cb  "}" in text
\*   fence   ```json in text             listo  "LISTO" in text.upper()
\*   reqs    how many requests _parse_all_tool_requests extracts from it
\*   bad     position of the first extracted request that is no mapping with
\*           tool_name and arguments, 0 if all have both.
Reply(kind, marker, ob, cb, fence, listo, reqs, bad) ==
    [kind |-> kind, marker |-> marker, ob |-> ob, cb |-> cb, fence |-> fence,
     listo |-> listo, reqs |-> reqs, bad |-> bad]

NoneReply == Reply("None", FALSE, FALSE, FALSE, FALSE, FALSE, 0, 0)
EmptyReply == Reply("empty", FALSE, FALSE, FALSE, FALSE, FALSE, 0, 0)

\* The replies chat_completion can return.  A text from which a request is
\* extracted holds a JSON object with the key "tool_request".
Replies ==
    {NoneReply, EmptyReply} \cup
    {r \in [kind : {"text"}, marker : BOOLEAN, ob : BOOLEAN, cb : BOOLEAN,
            fence : BOOLEAN, listo : BOOLEAN, reqs : 0..MaxReqs,
            bad : 0..MaxReqs] :
        /\ r.reqs > 0 => r.marker /\ r.ob /\ r.cb
        /\ r.bad <= r.reqs}

\* The replies taken for the synthesis call: after it the code looks only at
\* the truth of the reply and at _is_tool_request, so one text per way of
\* looking like a request or not is kept.
FinalReplies ==
    {r \in Replies :
        /\ ~r.listo /\ r.bad = 0
        /\ r.ob = r.cb /\ (r.marker => r.ob)
        /\ r.reqs = (IF r.marker /\ r.ob /\ r.cb THEN 1 ELSE 0)}

\* Python truth of a reply: None and "" are falsy.
Truthy(r) == r.kind = "text"

\* _is_tool_request: `in' on None raises TypeError, which the bare except
\* turns into False.
IsToolRequestAnyBraces(r) ==
    IF r.kind = "None" THEN FALSE
    ELSE (r.ob /\ r.cb) \/ r.fence
IsToolRequest(r) ==
    IF r.kind = "None" THEN FALSE
    ELSE (r.marker /\ r.ob /\ r.cb) \/ r.fence

\* A text as _is_tool_request sees it: the pieces that matter, in order
\* ("fence" stands for the opening ```json of a fenced block).
Tokens == {"tool_request", "{", "}", "fence", "texto"}
MaxTokens == 3
Texts == UNION {[1..n -> Tokens] : n \in 0..MaxTokens}

\* `x in response' for a piece x.
Contains(text, x) == \E i \in 1..Len(text) : text[i] = x

\* _is_tool_request on a text.
IsToolRequestText(text) ==
    IsToolRequest(Reply("text", Contains(text, "tool_request"), Contains(text, "{"),
                        Contains(text, "}"), Contains(text, "fence"), FALSE, 0, 0))

\* _is_tool_request is applied to a text.
LooksLikeRequest ==
    /\ fn = "-"
    /\ fnArg = <<>>
    /\ \E text \in Texts :
          /\ fnArg' = text
          /\ fnOut' = IsToolRequestText(text)
    /\ fn' = "is_tool_request"
    /\ UNCHANGED nonFnVars

\* The helper functions, each applied once to an input.
NextFn ==
    \/ LooksLikeRequest
    \/ Truncate
    \/ \E l \in LineKinds : ReplyLine(l)
    \/ ParseAll
    \/ Evaluate

\* len(_parse_all_tool_requests(response))
ParseAllToolRequests(r) == r.reqs

\* The while condition of _process_tools_autonomously.
LoopGuardNoBudget(it, r) == IsToolRequest(r)
LoopGuard(it, r) == it < MaxIterations /\ IsToolRequest(r)

\* errors_found / successful_results of one iteration.
ErrorsFound(results) == {i \in 1..Len(results) : results[i]}
SuccessfulResults(results) == {i \in 1..Len(results) : ~results[i]}

\* Which follow-up the if / elif / else after the executions sends.
FollowUpBranchNoBudget(results, it) ==
    IF ErrorsFound(results) # {} THEN "corrective"
    ELSE IF SuccessfulResults(results) # {} THEN "lighter"
    ELSE "alternative"
FollowUpBranch(results, it) ==
    IF ErrorsFound(results) # {} /\ it < MaxIterations THEN "corrective"
    ELSE IF SuccessfulResults(results) # {} THEN "lighter"
    ELSE "alternative"

\* len(all_tool_results)
RecordsTotal == all_tool_results.ok + all_tool_results.failed

\* all_tool_results.extend(iteration_results)
ExtendOverwrite(all, results) ==
    [ok |-> Cardinality(SuccessfulResults(results)),
     failed |-> Cardinality(ErrorsFound(results))]
Extend(all, results) ==
    [ok |-> all.ok + Cardinality(SuccessfulResults(results)),
     failed |-> all.failed + Cardinality(ErrorsFound(results))]

\* `if all_tool_results:' after the loop.
HasRecordsNever(all) == FALSE
HasRecords(all) == all.ok + all.failed > 0

\* The fixed text returned in place of a synthesis reply that looks like a
\* request: `if successful_tools' picks it.
CannedAnswerSuccess(all) == "canned_success"
CannedAnswer(all) == IF all.ok > 0 THEN "canned_success" ELSE "canned_all_failed"

\* The return value after the loop, given the reply of the synthesis call.
FinalAnswerTrusting(all, cr, fr) ==
    IF all.ok + all.failed > 0
    THEN IF Truthy(fr) THEN "final_response"
         ELSE IF all.ok > 0 THEN "timeout_success" ELSE "timeout_all_failed"
    ELSE IF Truthy(cr) THEN "current_response" ELSE "no_tools_timeout"
FinalAnswer(all, cr, fr) ==
    IF HasRecords(all)
    THEN IF Truthy(fr)
         THEN IF IsToolRequest(fr) THEN CannedAnswer(all) ELSE "final_response"
         ELSE IF all.ok > 0 THEN "timeout_success" ELSE "timeout_all_failed"
    ELSE IF Truthy(cr) THEN "current_response" ELSE "no_tools_timeout"

\* The history the caller passes to chat_with_tools.
History == <<"user", "assistant">>

\* messages as chat_with_tools builds it: a copy of the history, the system
\* prompt when tools are available, the user message.
BuildMessages(history, tools) ==
    history \o (IF tools THEN <<"system">> ELSE <<>>) \o <<"user">>

\* The caller's list once messages is built: `messages =
\* conversation_history.copy()' leaves it alone, where appending to the list
\* itself would have made it the built one.
HistoryAliased(history, msgs) == msgs
HistoryAfterCopy(history, msgs) == history

\* The list _llm_evaluate_result sends to the model: a local of its own.
EvaluationMessages == <<"user">>

\* What the loop's messages are once _llm_evaluate_result has run.
SharedContextAfterEvaluate(msgs) == msgs \o EvaluationMessages
ContextAfterEvaluate(msgs) == msgs

\* No chat_with_tools call.
\* follow_up_messages: a copy of messages with this iteration's messages
\* appended, an assistant and a user message in the corrective and the lighter
\* branch, a user message alone in the alternative branch.
FollowUpMessagesPairAlways(msgs, branch) == msgs \o <<"assistant", "user">>
FollowUpMessages(msgs, branch) ==
    msgs \o (IF branch = "alternative" THEN <<"user">>
             ELSE <<"assistant", "user">>)

\* final_messages: a copy of messages with the synthesis prompt appended.
FinalMessages(msgs) == msgs \o <<"user">>

\* The limits of the evidence summary.
MaxShownOk == 3
MaxShownFailed == 2
OkPreview == 1000
ErrorPreview == 500

\* Lengths of str(tool_result['result']) the summary is built from.
ResultLens == {400, 700, 1200}

\* The length of seq[:limit] for a sequence or string of length n.
SliceAll(n, limit) == n
Slice(n, limit) == IF n > limit THEN limit ELSE n

\* results_summary: the counts in its first line, how many results each list
\* shows, and the length of the preview of a shown result, by the length of
\* the result.
NoSummary ==
    [total |-> 0, ok |-> 0, failed |-> 0, shown_ok |-> 0, shown_failed |-> 0,
     result_preview |-> [n \in ResultLens |-> 0],
     error_preview |-> [n \in ResultLens |-> 0]]
ResultsSummary(all) ==
    [total |-> all.ok + all.failed, ok |-> all.ok, failed |-> all.failed,
     shown_ok |-> Slice(all.ok, MaxShownOk),
     shown_failed |-> Slice(all.failed, MaxShownFailed),
     result_preview |->
        [n \in ResultLens |-> IF all.ok > 0 THEN Slice(n, OkPreview) ELSE 0],
     error_preview |->
        [n \in ResultLens |-> IF all.failed > 0 THEN Slice(n, ErrorPreview) ELSE 0]]

LoopOff(at) ==
    /\ lpc = at
    /\ iteration = 0
    /\ current_response = NoneReply
    /\ replyNo = 0
    /\ pending = 0
    /\ iteration_results = <<>>
    /\ all_tool_results = [ok |-> 0, failed |-> 0]
    /\ prompt = "-"
    /\ execFrom = 0
    /\ answer = "-"
    /\ response = NoneReply
    /\ modelCalls = 0
    /\ evalCalls = 0
    /\ toolCalls = 0
    /\ invoked = <<>>
    /\ conversation_history = History
    /\ messages = <<>>
    /\ extracted = 0
    /\ final_response = NoneReply
    /\ follow_up_messages = <<>>
    /\ final_messages = <<>>
    /\ results_summary = NoSummary

\* chat_with_tools up to its return or the entry of the loop.  The answer
\* "None" is the value None, "response" the first reply as it came.  Once the
\* loop is entered the first reply lives on as current_response only.
ChatWithTools(r) ==
    /\ lpc = "start"
    /\ r \in Replies
    /\ replyNo' = 1
    /\ messages' = BuildMessages(conversation_history, tools_available)
    /\ conversation_history' = HistoryAfterCopy(conversation_history, messages')
    /\ modelCalls' = modelCalls + 1
    /\ IF ~Truthy(r)
       THEN /\ lpc' = "returned" /\ answer' = "None" /\ response' = r
            /\ UNCHANGED current_response
       ELSE IF tools_available /\ IsToolRequest(r)
       THEN /\ lpc' = "while" /\ current_response' = r
            /\ UNCHANGED <<answer, response>>
       ELSE /\ lpc' = "returned" /\ answer' = "response" /\ response' = r
            /\ UNCHANGED current_response
    /\ UNCHANGED <<tools_available, iteration, pending, iteration_results,
                   all_tool_results, prompt, execFrom, evalCalls, toolCalls,
                   invoked, extracted, final_response>>
    /\ UNCHANGED sentVars
    /\ UNCHANGED nonLoopVars

\* The while test, `iteration += 1', the extraction and its `break', which
\* comes before `iteration_results = []': on the break the list still holds
\* the records of the iteration before.
LoopTest ==
    /\ lpc = "while"
    /\ IF LoopGuard(iteration, current_response)
       THEN /\ iteration' = iteration + 1
            /\ IF ParseAllToolRequests(current_response) = 0
               THEN lpc' = "after" /\ UNCHANGED <<pending, iteration_results>>
               ELSE /\ lpc' = "exec"
                    /\ pending' = ParseAllToolRequests(current_response)
                    /\ iteration_results' = <<>>
            /\ invoked' = <<>>
            /\ extracted' = extracted + ParseAllToolRequests(current_response)
       ELSE /\ lpc' = "after"
            /\ UNCHANGED <<iteration, pending, iteration_results, invoked,
                           extracted>>
    /\ UNCHANGED <<tools_available, current_response, replyNo, all_tool_results,
                   prompt, execFrom, answer, response, modelCalls, evalCalls,
                   toolCalls, conversation_history, messages,
                   final_response>>
    /\ UNCHANGED sentVars
    /\ UNCHANGED nonLoopVars

\* The position in tool_requests the for loop takes next.
NextRequest(n, left) == n - left + 1

\* The for loop takes the next request and awaits execute_tool_request.
\* tool_request['tool_name'] on a request without it raises, nothing in
\* chat_with_tools catches it and the call ends with the exception.
ExecuteTool ==
    /\ lpc = "exec"
    /\ pending > 0
    /\ IF NextRequest(ParseAllToolRequests(current_response), pending)
            = current_response.bad
       THEN /\ lpc' = "raised"
            /\ UNCHANGED <<invoked, pending, toolCalls, execFrom>>
       ELSE /\ invoked' = Append(invoked,
                   NextRequest(ParseAllToolRequests(current_response), pending))
            /\ pending' = pending - 1
            /\ toolCalls' = toolCalls + 1
            /\ execFrom' = replyNo
            /\ lpc' = "tool_wait"
    /\ UNCHANGED <<tools_available, iteration, current_response, replyNo,
                   iteration_results, all_tool_results, prompt, answer, response,
                   modelCalls, evalCalls, conversation_history, messages,
                   extracted,
                   final_response>>
    /\ UNCHANGED sentVars
    /\ UNCHANGED nonLoopVars

\* The tool result arrives (execute_tool_request never raises); it is cut if
\* too long and _llm_evaluate_result makes its model call.
ToolReturn ==
    /\ lpc = "tool_wait"
    /\ evalCalls' = evalCalls + 1
    /\ modelCalls' = modelCalls + 1
    /\ messages' = ContextAfterEvaluate(messages)
    /\ lpc' = "eval_wait"
    /\ UNCHANGED <<tools_available, iteration, current_response, replyNo, pending,
                   iteration_results, all_tool_results, prompt, execFrom, answer,
                   response, toolCalls, invoked, conversation_history, extracted,
                   final_response>>
    /\ UNCHANGED sentVars
    /\ UNCHANGED nonLoopVars

\* _llm_evaluate_result returns is_error and the record is appended.  After
\* the last request the records of the iteration go to all_tool_results.
EvaluateResult(is_error) ==
    /\ lpc = "eval_wait"
    /\ is_error \in BOOLEAN
    /\ iteration_results' = Append(iteration_results, is_error)
    /\ IF pending = 0
       THEN /\ all_tool_results' = Extend(all_tool_results, iteration_results')
            /\ lpc' = "followup"
       ELSE /\ lpc' = "exec"
            /\ UNCHANGED all_tool_results
    /\ UNCHANGED <<tools_available, iteration, current_response, replyNo, pending,
                   prompt, execFrom, answer, response, modelCalls, evalCalls,
                   toolCalls, invoked, conversation_history, messages, extracted,
                   final_response>>
    /\ UNCHANGED sentVars
    /\ UNCHANGED nonLoopVars

\* `if not current_response or "LISTO" in current_response.upper(): break'
BreakUnlessRequest(r) == ~Truthy(r) \/ (r.listo /\ ParseAllToolRequests(r) = 0)
Break(r) == ~Truthy(r) \/ r.listo

\* The follow-up model call and the test of its reply.  The retry of lines
\* 317-330 needs `current_response is None' after `not current_response'
\* already left the loop, so it never runs.
FollowUp(r) ==
    /\ lpc = "followup"
    /\ r \in Replies
    /\ prompt' = FollowUpBranch(iteration_results, iteration)
    /\ current_response' = r
    /\ replyNo' = replyNo + 1
    /\ modelCalls' = modelCalls + 1
    /\ follow_up_messages' = FollowUpMessages(messages, prompt')
    /\ lpc' = IF Break(r) THEN "after" ELSE "while"
    /\ UNCHANGED <<tools_available, iteration, pending, iteration_results,
                   all_tool_results, execFrom, answer, response, evalCalls,
                   toolCalls, invoked, conversation_history, messages, extracted,
                   final_response, final_messages, results_summary>>
    /\ UNCHANGED nonLoopVars

\* After the loop: the synthesis call when something was executed, and the
\* return.
Finish(r) ==
    /\ lpc = "after"
    /\ r \in FinalReplies
    /\ final_response' = IF HasRecords(all_tool_results) THEN r ELSE final_response
    /\ answer' = FinalAnswer(all_tool_results, current_response, final_response')
    /\ modelCalls' = IF HasRecords(all_tool_results)
                       THEN modelCalls + 1 ELSE modelCalls
    /\ final_messages' = IF HasRecords(all_tool_results)
                           THEN FinalMessages(messages) ELSE final_messages
    /\ results_summary' = IF HasRecords(all_tool_results)
                            THEN ResultsSummary(all_tool_results)
                            ELSE results_summary
    /\ lpc' = "returned"
    /\ UNCHANGED <<tools_available, iteration, current_response, replyNo, pending,
                   iteration_results, all_tool_results, prompt, execFrom, response,
                   evalCalls, toolCalls, invoked, conversation_history, messages,
                   extracted, follow_up_messages>>
    /\ UNCHANGED nonLoopVars

NextLoop ==
    \/ \E r \in Replies : ChatWithTools(r)
    \/ LoopTest
    \/ ExecuteTool
    \/ ToolReturn
    \/ \E e \in BOOLEAN : EvaluateResult(e)
    \/ \E r \in Replies : FollowUp(r)
    \/ \E r \in FinalReplies : Finish(r)

----------------------------------------------------------------------------
Next ==
    \/ \E s \in Sessions, config \in BOOLEAN : SupervisorBegin(s, config)
    \/ \E s \in Sessions, ok \in BOOLEAN : ConnectIO(s, ok)
    \/ \E s \in Sessions : AutoConnectDone(s)
    \/ \E s \in Sessions, ok \in BOOLEAN : CreateLLM(s, ok)
    \/ \E s \in Sessions : RunWithStreamingEnter(s)
    \/ \E s \in Sessions : SendUpdateBegin(s)
    \/ \E s \in Sessions, ev \in PostOutcomes, got \in BOOLEAN : PostIO(s, ev, got)
    \/ \E s \in Sessions : SendUpdateEnd(s)
    \/ \E s \in Sessions : AgentRunBegin(s)
    \/ \E s \in Sessions : AgentIO(s)
    \/ \E s \in Sessions : AgentResume(s)
    \/ \E s \in Sessions, l \in LogLevels : AgentLog(s, l)
    \/ \E l \in LogLevels : OtherAgentLog(l)
    \/ \E s \in Sessions : AgentAwait(s)
    \/ \E s \in Sessions, isStr \in BOOLEAN : AgentReturn(s, isStr)
    \/ \E s \in Sessions : AgentRaise(s)
    \/ \E s \in Sessions : RunWithStreamingReturn(s)
    \/ \E s \in Sessions : RunWithStreamingReraise(s)
    \/ \E s \in Sessions : SupervisorExcept(s)
    \/ \E s \in Sessions, suspends \in BOOLEAN : SupervisorFinally(s, suspends)
    \/ \E s \in Sessions : CloseIO(s)
    \/ \E s \in Sessions : SupervisorClosed(s)
    \/ TaskBegin
    \/ \E ev \in PostOutcomes, got \in BOOLEAN : TaskPostIO(ev, got)
    \/ TaskEnd

\* The same system when nothing fails: every connection, model call and POST
\* succeeds and the agents return strings.
NextNoFault ==
    \/ \E s \in Sessions : SupervisorBegin(s, TRUE)
    \/ \E s \in Sessions : ConnectIO(s, TRUE)
    \/ \E s \in Sessions : AutoConnectDone(s)
    \/ \E s \in Sessions : CreateLLM(s, TRUE)
    \/ \E s \in Sessions : RunWithStreamingEnter(s)
    \/ \E s \in Sessions : SendUpdateBegin(s)
    \/ \E s \in Sessions : PostIO(s, "ok", TRUE)
    \/ \E s \in Sessions : SendUpdateEnd(s)
    \/ \E s \in Sessions : AgentRunBegin(s)
    \/ \E s \in Sessions : AgentIO(s)
    \/ \E s \in Sessions : AgentResume(s)
    \/ \E s \in Sessions, l \in LogLevels : AgentLog(s, l)
    \/ \E l \in LogLevels : OtherAgentLog(l)
    \/ \E s \in Sessions : AgentAwait(s)
    \/ \E s \in Sessions : AgentReturn(s, TRUE)
    \/ \E s \in Sessions : RunWithStreamingReturn(s)
    \/ \E s \in Sessions, suspends \in BOOLEAN : SupervisorFinally(s, suspends)
    \/ \E s \in Sessions : CloseIO(s)
    \/ \E s \in Sessions : SupervisorClosed(s)
    \/ TaskBegin
    \/ TaskPostIO("ok", TRUE)
    \/ TaskEnd

\* The same system when only the agent run can fail (it raises, or returns
\* something that is not a str): the two ways run_with_streaming ends by an
\* exception.  Connections, the API key and every POST succeed.
NextAgentFault ==
    \/ NextNoFault
    \/ \E s \in Sessions : AgentReturn(s, FALSE)
    \/ \E s \in Sessions : AgentRaise(s)
    \/ \E s \in Sessions : RunWithStreamingReraise(s)
    \/ \E s \in Sessions : SupervisorExcept(s)

----------------------------------------------------------------------------
\* ChatInterface (chat.py): process_user_input and the history it keeps

\* `if len(self.conversation_history) > 20' and `[-20:]'.
MaxHistory == 20

\* What the user types: the text without surrounding blanks and in lower
\* case, whether blanks surround it, whether it is typed in capitals.
Bodies == {"/quit", "/help", "/clear", "/tools", "/otro", "", "hola"}
UserInputs == [body : Bodies, padded : BOOLEAN, caps : BOOLEAN]

\* A string literal of the code.
Text(b) == [body |-> b, padded |-> FALSE, caps |-> FALSE]

\* str.strip, str.lower, str.startswith("/"), `not user_input'.
Strip(u) == [u EXCEPT !.padded = FALSE]
Lower(u) == [u EXCEPT !.caps = FALSE]
StartsWithSlash(u) ==
    ~u.padded /\ u.body \in {"/quit", "/help", "/clear", "/tools", "/otro"}
IsEmptyInput(u) == ~u.padded /\ u.body = ""

\* What chat_with_tools gives process_user_input: a text, None, an exception.
ChatAnswers == {"text", "None", "raise"}

Message(r, c) == [role |-> r, content |-> c]

\* The two appends and `self.conversation_history =
\* self.conversation_history[-20:]' when the list is longer than 20.
TrimKeepsOldest(h) ==
    IF Len(h) > MaxHistory THEN SubSeq(h, 1, MaxHistory) ELSE h
Trim(h) ==
    IF Len(h) > MaxHistory THEN SubSeq(h, Len(h) - MaxHistory + 1, Len(h)) ELSE h

UpdateHistory(h, user_input, reply) ==
    Trim(h \o <<Message("user", user_input), Message("assistant", reply)>>)

NoChatCall ==
    [made |-> FALSE, input |-> Text(""), answer |-> "-", ret |-> TRUE,
     before |-> <<>>]

ChatInit == chat_history = <<>> /\ chat_call = NoChatCall

\* One process_user_input call, from its entry to its return.
ProcessUserInput(u) ==
    /\ u \in UserInputs
    /\ LET user_input == Strip(u)
           command == Lower(user_input)
           isCommand == StartsWithSlash(user_input)
       IN  \E a \in ChatAnswers :
             LET called == ~isCommand /\ ~IsEmptyInput(user_input)
                 given == IF called THEN a ELSE "-"
             IN  /\ chat_history' =
                        IF command = Text("/clear") THEN <<>>
                        ELSE IF called /\ given = "text"
                        THEN UpdateHistory(chat_history, user_input, "response")
                        ELSE chat_history
                 /\ chat_call' = [made |-> TRUE, input |-> u, answer |-> given,
                                  ret |-> (command # Text("/quit")),
                                  before |-> chat_history]
    /\ UNCHANGED nonChatVars

NextChat == \E u \in UserInputs : ProcessUserInput(u)

\* One chat session.
Init == SessInit({"A"}) /\ tools_available = FALSE /\ LoopOff("off") /\ GhInit /\ FnInit /\ ChatInit

Spec == Init /\ [][Next]_vars

\* Two chat sessions at the same time.
InitPair == SessInit(Sessions) /\ tools_available = FALSE /\ LoopOff("off") /\ GhInit /\ FnInit /\ ChatInit

\* Two chat sessions at the same time, an agent run may fail.
SpecPairAgentFault == InitPair /\ [][NextAgentFault]_vars

\* Two chat sessions at the same time, nothing fails.
SpecPairNoFault == InitPair /\ [][NextNoFault]_vars

\* One chat_with_tools call, no feedback session.
InitLoop == SessInit({}) /\ tools_available \in BOOLEAN /\ LoopOff("start") /\ GhInit /\ FnInit /\ ChatInit

SpecLoop == InitLoop /\ [][NextLoop]_vars

\* One GitHubMCPClient, used directly.
InitGh == SessInit({}) /\ tools_available = FALSE /\ LoopOff("off") /\ GhInit /\ FnInit /\ ChatInit

SpecGh == InitGh /\ [][NextGh]_vars

----------------------------------------------------------------------------
\* Claims about GitHubMCPClient

\* C11: call_tool / execute_tool_request never raises; without a connection,
\* for a name that is not registered, when the provider call raises and when
\* the reply has no content the value returned is a mapping with an "error"
\* key; a name that is not registered is never passed to the provider.
C11_CallToolNeverRaises ==
    /\ lastCall.name # "-" =>
          /\ ~lastCall.raised
          /\ (\/ ~lastCall.connected
              \/ lastCall.session = "none"
              \/ ~lastCall.registered
              \/ lastCall.outcome \in {"raises", "no_content"})
             => lastCall.result.mapping /\ lastCall.result.error
          /\ ~lastCall.registered => ~lastCall.reached
    /\ \A i \in 1..Len(providerCalls) : providerCalls[i] \in ServerTools

\* C11 witness: a connected client was asked for a name that is not
\* registered, after a provider call that raised.
C11_Witness ==
    /\ lastCall.connected /\ lastCall.session = "live" /\ ~lastCall.registered
    /\ lastCall.result.kind = "not_available"
    /\ Len(providerCalls) > 0

\* The helper functions on bounded inputs.
InitFn == SessInit({}) /\ tools_available = FALSE /\ LoopOff("off") /\ GhInit /\ FnInit /\ ChatInit

SpecFn == InitFn /\ [][NextFn]_vars

\* One ChatInterface, fed any inputs.
InitChat == SessInit({}) /\ tools_available = FALSE /\ LoopOff("off") /\ GhInit /\ FnInit /\ ChatInit

SpecChat == InitChat /\ [][NextChat]_vars

----------------------------------------------------------------------------
\* Claims about the steps of one tool execution

\* C12: a tool result whose serialization is longer than 5000 characters is
\* stored cut, with original_length equal to the length of the serialization
\* that was compared with the cap (so original_length > 5000); a result whose
\* serialization has at most 5000 characters is stored unchanged.
C12_TruncationKeepsLength ==
    fn = "truncate" =>
        IF JsonDumpsIndent2(fnArg) > Cap
        THEN /\ fnOut.truncated
             /\ fnOut.original_length = JsonDumpsIndent2(fnArg)
             /\ fnOut.original_length > Cap
        ELSE ~fnOut.truncated /\ fnOut.result = fnArg

\* C16: when the classification call returns a non-empty reply,
\* _llm_evaluate_result returns True exactly when the upper-cased reply
\* contains ERROR; a reply with neither ERROR nor EXITO counts as success.
C16_ErrorTokenDecides ==
    (fn = "evaluate" /\ fnArg.request_ok /\ ~fnArg.reply.none
        /\ fnArg.reply.words # <<>>) =>
        /\ fnOut.is_error <=>
              \E k \in 1..Len(fnArg.reply.words) :
                  fnArg.reply.words[k] \in {"ERROR", "error", "Error", "errores"}
        /\ (\A k \in 1..Len(fnArg.reply.words) : fnArg.reply.words[k] = "ok")
              => ~fnOut.is_error

\* C16 witness: the reply "ok error", in lower case, made the result an error
\* although the result itself shows no indicator.
C16_Witness ==
    /\ fn = "evaluate" /\ fnArg.request_ok
    /\ fnArg.reply.words = <<"ok", "error">> /\ fnArg.result.text = {}
    /\ fnOut.is_error /\ fnOut.branch = "reply"

\* C17: when the classification call returns no content, the result is
\* classified as error exactly when its lower-cased text contains one of the
\* eight substrings error, missing, not found, denied, forbidden, invalid,
\* failed, unable.
C17_FallbackEightIndicators ==
    (fn = "evaluate" /\ fnArg.request_ok
        /\ (fnArg.reply.none \/ fnArg.reply.words = <<>>)) =>
        (fnOut.is_error <=>
            fnArg.result.text \cap {"error", "missing", "not found", "denied",
                                    "forbidden", "invalid", "failed", "unable"} # {})

\* A text made of fenced blocks of one line each, with prose between them:
\* the lines inside the blocks, in order (ok is FALSE for any other text).
RECURSIVE FencedBlocks(_, _)
FencedBlocks(lines, i) ==
    IF i > Len(lines) THEN [ok |-> TRUE, contents |-> <<>>]
    ELSE IF lines[i] = "prose" THEN FencedBlocks(lines, i + 1)
    ELSE IF /\ lines[i] = "open" /\ i + 2 <= Len(lines)
            /\ lines[i + 1] \notin {"open", "close"} /\ lines[i + 2] = "close"
    THEN LET rest == FencedBlocks(lines, i + 3) IN
         [ok |-> rest.ok, contents |-> <<lines[i + 1]>> \o rest.contents]
    ELSE [ok |-> FALSE, contents |-> <<>>]

\* C14: for a reply with N >= 1 well-formed fenced json blocks, each a
\* mapping with a tool_request, _parse_all_tool_requests returns exactly N
\* requests, the k-th being the request of the k-th block.
C14_FencedBlocksInOrder ==
    fn = "parse" =>
        LET b == FencedBlocks(fnArg, 1) IN
        (b.ok /\ Len(b.contents) >= 1
              /\ \A k \in 1..Len(b.contents) : IsRequestLine(b.contents[k]))
        => /\ Len(fnOut) = Len(b.contents)
           /\ \A k \in 1..Len(b.contents) : fnOut[k] = RequestOf(b.contents[k])

\* C14 witness: two fenced requests, the second request first, were
\* extracted in that order.
C14_Witness ==
    /\ fn = "parse"
    /\ fnArg = <<"open", "req2", "close", "open", "req1", "close">>
    /\ fnOut = <<2, 1>>

\* C15: a fenced block that is malformed (not decodable, or decoding to
\* something that is no mapping with a tool_request) is skipped: every
\* well-formed fenced request block of the same reply is still returned.
C15_MalformedBlockSkipped ==
    fn = "parse" =>
        LET b == FencedBlocks(fnArg, 1) IN
        b.ok => \A k \in 1..Len(b.contents) :
                    IsRequestLine(b.contents[k]) =>
                        \E j \in 1..Len(fnOut) : fnOut[j] = RequestOf(b.contents[k])

----------------------------------------------------------------------------
\* Claims about the tool loop

\* C24: every request _parse_all_tool_requests returns carries a tool name,
\* so that tool_request["tool_name"] in the loop cannot fail.
C24_RequestsCarryToolName ==
    fn = "parse" => \A k \in 1..Len(fnOut) : HasToolName(fnOut[k])

\* The object literals of a text, in source order.
ObjectLines(lines) == SelectSeq(lines, LAMBDA l : IsRequestLine(l) \/ l = "obj")

\* C25: a reply without a fence that holds K >= 1 object literals, each a
\* request with a tool name and a non-empty arguments object, gives exactly
\* those K requests in source order.
C25_TopLevelObjectsInOrder ==
    (/\ fn = "parse"
     /\ \A i \in 1..Len(fnArg) : fnArg[i] \in {"req1", "req2", "prose"}
     /\ Len(ObjectLines(fnArg)) >= 1) =>
        fnOut = [k \in 1..Len(ObjectLines(fnArg)) |-> RequestOf(ObjectLines(fnArg)[k])]

\* C26: the fenced blocks decide when they yield a request (objects outside
\* the fences are then not returned); the separate objects decide when the
\* fences yield nothing and they yield a request; the first-brace/last-brace
\* parse decides only when both yield nothing.
C26_StrategiesInOrder ==
    fn = "parse" =>
        LET m1 == ParseFenced(fnArg, 1, FALSE, <<>>, <<>>) IN
        /\ m1.out # <<>> => fnOut = m1.out
        /\ (m1.out = <<>> /\ ~m1.error /\ ParseObjects(fnArg) # <<>>) =>
               fnOut = ParseObjects(fnArg)
        /\ (fnOut # <<>> /\ fnOut = ParseToolRequest(fnArg)
               /\ fnOut # m1.out /\ fnOut # ParseObjects(fnArg)) =>
               (m1.out = <<>> /\ ParseObjects(fnArg) = <<>>)

\* C26 witness: a fenced request followed by a request object outside the
\* fence, which the second strategy would find; only the fenced one came back.
C26_Witness ==
    /\ fn = "parse"
    /\ fnArg = <<"open", "req1", "close", "reqNoName">>
    /\ ParseObjects(fnArg) = <<3>>
    /\ fnOut = <<1>>

\* The braces of a text are balanced: none closes before it was opened and
\* none stays open.
RECURSIVE Depth(_, _, _)
Depth(text, i, d) ==
    IF d < 0 THEN -1
    ELSE IF i > Len(text) THEN d
    ELSE Depth(text, i + 1,
               d + (IF text[i] = "{" THEN 1 ELSE IF text[i] = "}" THEN -1 ELSE 0))
Balanced(text) == Depth(text, 1, 0) = 0

\* C27: _is_tool_request is True only for a text with the tool_request
\* marker and balanced braces (at least one pair), or with a fenced json
\* block.
C27_MarkerNeedsBalancedBraces ==
    (fn = "is_tool_request" /\ fnOut) =>
        \/ /\ Contains(fnArg, "tool_request")
           /\ Contains(fnArg, "{") /\ Balanced(fnArg)
        \/ Contains(fnArg, "fence")

\* C1: for every sequence of model replies and classifier outcomes the loop
\* counter never exceeds max_iterations = 10, and the requests executed last
\* never come from an 11th reply.
C1_IterationBudget ==
    iteration <= MaxIterations /\ execFrom <= MaxIterations

\* C1 witness: ten iterations ran, the reply to the tenth follow-up (the 11th
\* reply) asks for tools again, and the loop has ended without running them.
C1_Witness ==
    /\ lpc = "returned"
    /\ iteration = MaxIterations
    /\ replyNo = MaxIterations + 1
    /\ IsToolRequest(current_response) /\ current_response.reqs > 0
    /\ ~current_response.listo
    /\ execFrom = MaxIterations

\* A first reply without the tool_request marker and without a fenced json
\* block never enters the loop.
FirstReplyEntersLoopOnlyAsRequest ==
    (lpc = "while" /\ replyNo = 1) =>
        (current_response.marker \/ current_response.fence)

\* C13: when the first model reply carries neither the tool_request marker
\* nor a fenced json block, chat_with_tools returns that reply unchanged,
\* executes no tool, makes no classification call and no further model call.
C13_DirectAnswerUnchanged ==
    /\ FirstReplyEntersLoopOnlyAsRequest
    /\ (lpc = "returned" /\ iteration = 0 /\ ~response.marker /\ ~response.fence) =>
          /\ answer = "response" \/ (answer = "None" /\ response = NoneReply)
          /\ toolCalls = 0 /\ evalCalls = 0 /\ modelCalls = 1

\* C13 as the code has it: a non-empty first reply without marker and fence
\* is returned unchanged, the loop is not entered and nothing else is called;
\* an empty first reply ("") is not returned, chat_with_tools returns None.
C13_DirectAnswerNonEmpty ==
    /\ FirstReplyEntersLoopOnlyAsRequest
    /\ (lpc = "returned" /\ iteration = 0 /\ ~response.marker /\ ~response.fence) =>
          /\ answer = IF Truthy(response) THEN "response" ELSE "None"
          /\ toolCalls = 0 /\ evalCalls = 0 /\ modelCalls = 1

\* C13 witness: a text with braces but without marker and fence came back as
\* the answer of a client that has tools.
C13_Witness ==
    /\ lpc = "returned" /\ tools_available /\ answer = "response"
    /\ response.kind = "text" /\ response.ob /\ response.cb
    /\ ~response.marker /\ ~response.fence
    /\ modelCalls = 1 /\ toolCalls = 0

\* C18: classifying a tool result leaves the conversation context alone: from
\* the return of the tool to the return of _llm_evaluate_result, the messages
\* list of the primary model and the caller's history stay as they were.
C18_EvaluateLeavesContext ==
    [][(lpc \in {"tool_wait", "eval_wait"}) =>
          (messages' = messages /\ conversation_history' = conversation_history)]_vars

\* C18 witness: two results were classified in a call with tools, and the
\* messages are still the history, the system prompt and the user message.
C18_Witness ==
    /\ evalCalls = 2 /\ Len(iteration_results) = 2
    /\ messages = <<"user", "assistant", "system", "user">>
    /\ conversation_history = <<"user", "assistant">>

\* C19: every tool execution record carries a boolean has_error and belongs
\* to one iteration: between iterations the number of records is the sum,
\* over the iterations so far, of the requests extracted, and inside an
\* iteration it is that sum without the requests of the iteration under way.
C19_RecordsResolvedAndCounted ==
    /\ \A i \in 1..Len(iteration_results) : iteration_results[i] \in BOOLEAN
    /\ lpc \in {"start", "while", "followup", "after", "returned"} =>
           RecordsTotal = extracted
    /\ lpc \in {"exec", "tool_wait", "eval_wait"} =>
           /\ RecordsTotal + ParseAllToolRequests(current_response) = extracted
           /\ Len(iteration_results) <= ParseAllToolRequests(current_response)

\* C19 witness: after a second iteration the loop holds three records, of a
\* reply with two requests and a reply with one, failed and successful ones.
C19_Witness ==
    /\ lpc = "followup" /\ iteration = 2 /\ extracted = 3
    /\ RecordsTotal = 3 /\ Len(iteration_results) = 1
    /\ all_tool_results.ok > 0 /\ all_tool_results.failed > 0

\* C20: every request extracted from one reply is executed, one at a time
\* and in extraction order: the positions invoked so far are 1, 2, ..., at
\* most one tool call is in flight, a request starts only when the one before
\* it is classified, and when the iteration is over, by reaching its
\* follow-up or by an exception, every extracted request was executed.
\* (Records are compared inside the iteration: outside it the list may still
\* hold the records of the iteration before.)
C20_AllExecutedInOrder ==
    /\ invoked = [k \in 1..Len(invoked) |-> k]
    /\ toolCalls - evalCalls = (IF lpc = "tool_wait" THEN 1 ELSE 0)
    /\ lpc \in {"exec", "tool_wait", "eval_wait", "followup"} =>
           Len(invoked) - Len(iteration_results)
               = (IF lpc \in {"tool_wait", "eval_wait"} THEN 1 ELSE 0)
    /\ lpc \in {"followup", "raised"} =>
           Len(invoked) = ParseAllToolRequests(current_response)

\* C21: when the reply of the synthesis call looks like a tool request it is
\* not returned: the answer is the canned text chosen by the counts of
\* successful and failed executions, and the synthesis call was the last
\* call: every tool call made has its record and every model call is a
\* primary reply, a classification or the synthesis itself.
C21_ToolLookingSynthesisDiscarded ==
    (lpc = "returned" /\ RecordsTotal > 0 /\ Truthy(final_response)
        /\ IsToolRequest(final_response)) =>
        /\ answer = (IF all_tool_results.ok > 0 THEN "canned_success"
                                                ELSE "canned_all_failed")
        /\ toolCalls = RecordsTotal /\ evalCalls = RecordsTotal
        /\ modelCalls = replyNo + evalCalls + 1

\* C21 witness: after two failed executions the synthesis reply held a
\* request with marker and braces, and the all-failed canned text came back.
C21_Witness ==
    /\ lpc = "returned" /\ final_response.kind = "text"
    /\ final_response.marker /\ final_response.reqs = 1
    /\ all_tool_results = [ok |-> 0, failed |-> 2]
    /\ answer = "canned_all_failed" /\ toolCalls = 2

\* The tenth iteration ran its requests and every execution of the call was
\* classified as error (the all-failed follow-up is sent after the tenth
\* iteration only).
AllFailedAtBudget ==
    /\ lpc = "returned" /\ iteration = MaxIterations
    /\ all_tool_results.ok = 0 /\ all_tool_results.failed >= MaxIterations
    /\ prompt = "alternative"

\* C22: when every execution of all ten iterations was classified as error,
\* the answer of the loop is a canned all-failed text.
C22_AllFailedCanned ==
    AllFailedAtBudget => answer \in {"canned_all_failed", "timeout_all_failed"}

\* C22 as the code has it: after ten all-failed iterations the answer is the
\* synthesis reply when that is a non-empty text that does not look like a
\* request, the all-failed canned text when it looks like a request, and the
\* all-failed timeout text when the synthesis call returned nothing.
C22_AllFailedAnswer ==
    AllFailedAtBudget =>
        answer = (IF final_response.kind # "text" THEN "timeout_all_failed"
                  ELSE IF (final_response.marker /\ final_response.ob
                             /\ final_response.cb) \/ final_response.fence
                       THEN "canned_all_failed"
                       ELSE "final_response")

\* C22 witness: ten all-failed iterations, a synthesis reply that looks like
\* a request, the all-failed canned text returned.
C22_Witness ==
    /\ AllFailedAtBudget /\ final_response.fence /\ answer = "canned_all_failed"

\* The follow-up of the iteration whose records are in iteration_results has
\* been sent: prompt is its template, and the iteration counted last is that
\* one (every iteration before it had its follow-up answered too).
FollowUpSent ==
    /\ lpc \in {"while", "after", "returned"}
    /\ iteration_results # <<>> /\ prompt # "-"
    /\ replyNo = iteration + 1

\* Every execution of the iteration was classified as error.
AllFailed(results) == results # <<>> /\ SuccessfulResults(results) = {}

\* C28: after an iteration whose executions all failed, the follow-up sent
\* is the alternative-strategy prompt, at every iteration index.
C28_AllFailedGetsAlternative ==
    (FollowUpSent /\ AllFailed(iteration_results)) => prompt = "alternative"

\* C28 as the code has it: an all-failed iteration gets the corrective prompt
\* while the budget is not used up (iterations 1 to 9) and the
\* alternative-strategy prompt in the tenth; no other iteration gets the
\* alternative-strategy prompt.
C28_AllFailedByBudget ==
    FollowUpSent =>
        /\ AllFailed(iteration_results) =>
              prompt = (IF iteration < MaxIterations THEN "corrective"
                                                     ELSE "alternative")
        /\ prompt = "alternative" =>
              (AllFailed(iteration_results) /\ iteration = MaxIterations)

\* C28 witness: the tenth iteration ran two requests, both failed, and the
\* alternative-strategy prompt was sent.
C28_Witness ==
    /\ FollowUpSent /\ iteration = MaxIterations
    /\ iteration_results = <<TRUE, TRUE>> /\ prompt = "alternative"

\* C29: the lighter prompt is sent only after an iteration in which every
\* execution was classified as success.
C29_LighterOnlyAllSucceeded ==
    (FollowUpSent /\ prompt = "lighter") => ErrorsFound(iteration_results) = {}

\* C30: when the reply to a follow-up holds LISTO (the reply's listo is the
\* test on the upper-cased text) or is empty or None, the loop is left at
\* once, also when the reply holds a request: the next step is the synthesis
\* and return, no iteration starts and no tool is called.
C30_SentinelEndsLoop ==
    [][/\ (lpc = "followup"
           /\ (~Truthy(current_response') \/ current_response'.listo))
          => lpc' = "after"
       /\ lpc = "after" =>
             (lpc' = "returned" /\ iteration' = iteration
                 /\ toolCalls' = toolCalls /\ evalCalls' = evalCalls)]_vars

\* C30 witness: the reply to the first follow-up held LISTO and a well-formed
\* request, with budget left; the call returned after one iteration and the
\* one tool call of that iteration.
C30_Witness ==
    /\ lpc = "returned" /\ iteration = 1 /\ replyNo = 2
    /\ current_response.listo /\ ParseAllToolRequests(current_response) = 1
    /\ current_response.bad = 0 /\ IsToolRequest(current_response)
    /\ toolCalls = 1 /\ invoked = <<1>>

\* C31: when a follow-up call returned no content with budget left, the loop
\* has made one more model call, the retry with the single-message context,
\* before it is left: the model calls at that point are the primary replies,
\* the classifications and that retry.
C31_RetryAfterTimeout ==
    (lpc = "after" /\ replyNo > 1 /\ current_response.kind = "None"
        /\ iteration < MaxIterations) =>
        modelCalls = replyNo + evalCalls + 1

\* The loop was left because no request was extracted from the current reply:
\* the iteration was counted and ran nothing, so no follow-up was sent for it
\* (the replies so far are the first one and one per earlier iteration).
NoRequestBreak ==
    /\ lpc \in {"after", "returned"} /\ iteration >= 1
    /\ replyNo = iteration /\ invoked = <<>>

\* C32: when no request is extracted from the current reply, in whichever
\* iteration, the loop ends without a tool call and the answer is the
\* current reply.
C32_NoRequestsReturnsCurrent ==
    (NoRequestBreak /\ lpc = "returned") =>
        (answer = "current_response" /\ toolCalls = RecordsTotal)

\* C32 as the code has it: the loop ends without a tool call; the answer is
\* the current reply when nothing was executed before, and otherwise what
\* the synthesis call gives (its reply, a canned text or a timeout text).
C32_NoRequestsEndsLoop ==
    NoRequestBreak =>
        /\ toolCalls = RecordsTotal /\ evalCalls = RecordsTotal
        /\ ParseAllToolRequests(current_response) = 0
        /\ lpc = "returned" =>
              /\ RecordsTotal = 0 => answer = "current_response"
              /\ RecordsTotal > 0 =>
                    /\ answer = FinalAnswer(all_tool_results, current_response,
                                            final_response)
                    /\ answer # "current_response"
                    /\ modelCalls = replyNo + evalCalls + 1

\* C32 witness: the second reply looked like a request but held none; the
\* loop ended in its second iteration with the one tool call of the first,
\* and the synthesis reply was returned.
C32_Witness ==
    /\ NoRequestBreak /\ lpc = "returned" /\ iteration = 2
    /\ toolCalls = 1 /\ RecordsTotal = 1 /\ answer = "final_response"

\* A follow-up call has just been answered and the loop goes on: iteration
\* still counts the iteration whose results the follow-up reported.
FollowUpAnswered == lpc = "while" /\ replyNo > 1

\* C33: the follow-up sent after iteration i holds the seed context and one
\* assistant/user pair for each of the iterations 1..i, in every branch.
C33_ContextGrowsPerIteration ==
    FollowUpAnswered =>
        /\ Len(follow_up_messages) = Len(messages) + 2 * iteration
        /\ SubSeq(follow_up_messages, 1, Len(messages)) = messages

\* C33 as the code has it: every follow-up is the seed context, which never
\* changes, followed by the messages of the current iteration alone: an
\* assistant and a user message in the corrective and the lighter branch, one
\* user message in the alternative branch.
C33_FollowUpIsSeedPlusCurrent ==
    FollowUpAnswered =>
        /\ messages = BuildMessages(conversation_history, tools_available)
        /\ SubSeq(follow_up_messages, 1, Len(messages)) = messages
        /\ follow_up_messages[Len(follow_up_messages)] = "user"
        /\ prompt \in {"corrective", "lighter"} =>
              /\ Len(follow_up_messages) = Len(messages) + 2
              /\ follow_up_messages[Len(messages) + 1] = "assistant"
        /\ prompt = "alternative" =>
              Len(follow_up_messages) = Len(messages) + 1

\* C33 witness: the follow-up of the last iteration, where every tool failed,
\* took the alternative branch and was answered with another request.
C33_Witness ==
    /\ FollowUpAnswered /\ iteration = MaxIterations /\ prompt = "alternative"
    /\ follow_up_messages = <<"user", "assistant", "system", "user", "user">>

\* C34: when the loop ends with at least one record, one synthesis call is
\* made, and its summary shows at most 3 successful results, each cut to at
\* most 1000 characters, and at most 2 failed results, each cut to at most
\* 500 characters, whatever the number of records; a shorter list or result
\* is shown whole.
C34_BoundedSummary ==
    (lpc = "returned" /\ RecordsTotal > 0) =>
        /\ modelCalls = replyNo + evalCalls + 1
        /\ final_messages = messages \o <<"user">>
        /\ results_summary.total = RecordsTotal
        /\ results_summary.shown_ok <= 3
        /\ results_summary.shown_failed <= 2
        /\ all_tool_results.ok <= 3 =>
              results_summary.shown_ok = all_tool_results.ok
        /\ all_tool_results.failed <= 2 =>
              results_summary.shown_failed = all_tool_results.failed
        /\ \A n \in ResultLens :
              /\ results_summary.result_preview[n] <= 1000
              /\ results_summary.error_preview[n] <= 500
              /\ (all_tool_results.ok > 0 /\ n <= 1000) =>
                    results_summary.result_preview[n] = n
              /\ (all_tool_results.failed > 0 /\ n <= 500) =>
                    results_summary.error_preview[n] = n

\* C34 witness: the loop returned with more than 3 successes and more than 2
\* failures on record; the summary showed 3 and 2, and cut a result of 1200
\* characters to 1000 and to 500.
C34_Witness ==
    /\ lpc = "returned" /\ all_tool_results.ok > 3 /\ all_tool_results.failed > 2
    /\ results_summary.shown_ok = 3 /\ results_summary.shown_failed = 2
    /\ results_summary.result_preview[1200] = 1000
    /\ results_summary.error_preview[1200] = 500
    /\ modelCalls = replyNo + evalCalls + 1

\* C36: the loop always ends by returning: no run ends with an exception, the
\* model calls stay within the budget's bound (the first call, one follow-up
\* and MaxReqs classifications per iteration, the synthesis call), and
\* chat_with_tools returns None only when the first call gave no content.
C36_AlwaysReturnsText ==
    /\ lpc # "raised"
    /\ modelCalls <= 2 + MaxIterations * (1 + MaxReqs)
    /\ (lpc = "returned" /\ answer = "None") => (replyNo = 1 /\ iteration = 0)

\* C39: chat_with_tools leaves the caller's conversation_history as it was,
\* whatever the call did: in every state of every run, the list is the one
\* passed in, and what was appended for a follow-up or for the synthesis call
\* is in lists of the call's own.
C39_HistoryUntouched ==
    /\ conversation_history = History
    /\ lpc \in {"returned", "raised"} =>
          /\ replyNo >= 1
          /\ SubSeq(messages, 1, Len(History)) = conversation_history
          /\ Len(messages) > Len(conversation_history)

\* C39 witness: a call that went through a follow-up and the synthesis call
\* has returned; both lists were longer than the history, which is unchanged.
C39_Witness ==
    /\ lpc = "returned" /\ conversation_history = <<"user", "assistant">>
    /\ Len(follow_up_messages) > 2 /\ Len(final_messages) > 2
    /\ answer = "final_response"

----------------------------------------------------------------------------
\* Claims about the chat interface

\* What an input is, whatever blanks surround it and however it is typed.
IsQuit(u) == u.body = "/quit"
IsClear(u) == u.body = "/clear"
IsNormalMessage(u) == u.body = "hola"

\* The last call was a normal message that got a non-empty answer.
Answered == chat_call.made /\ IsNormalMessage(chat_call.input)
                /\ chat_call.answer = "text"

\* How many of the messages the last call started from were dropped.
Dropped == Len(chat_call.before) + 2 - Len(chat_history)

\* C40: the history holds at most 20 messages, an even number, user and
\* assistant in turn.  A normal message with a non-empty answer appends the
\* two messages and drops the oldest beyond 20; /clear empties the history;
\* every other call leaves it as it was; only /quit returns False.
C40_HistoryBounded ==
    /\ Len(chat_history) <= 20
    /\ Len(chat_history) % 2 = 0
    /\ \A i \in 1..Len(chat_history) :
          chat_history[i].role = IF i % 2 = 1 THEN "user" ELSE "assistant"
    /\ chat_call.made =>
          /\ chat_call.ret <=> ~IsQuit(chat_call.input)
          /\ IsClear(chat_call.input) => chat_history = <<>>
          /\ (~Answered /\ ~IsClear(chat_call.input)) =>
                chat_history = chat_call.before
          /\ Answered =>
                /\ Len(chat_history) =
                      IF Len(chat_call.before) + 2 > 20 THEN 20
                      ELSE Len(chat_call.before) + 2
                /\ chat_history[Len(chat_history) - 1].role = "user"
                /\ chat_history[Len(chat_history) - 1].content.body = "hola"
                /\ chat_history[Len(chat_history) - 1].content.caps
                      = chat_call.input.caps
                /\ chat_history[Len(chat_history)].role = "assistant"
                /\ \A i \in 1..(Len(chat_history) - 2) :
                      chat_history[i] = chat_call.before[i + Dropped]

\* C40 witness: a full history got one more exchange, typed differently from
\* the one before it; the oldest exchange was dropped.
C40_Witness ==
    /\ Answered /\ Len(chat_call.before) = 20 /\ Len(chat_history) = 20
    /\ Dropped = 2
    /\ chat_history[19].content # chat_history[17].content
    /\ chat_history[1].content # chat_call.before[1].content

----------------------------------------------------------------------------
\* Claims about the streaming sessions

\* The supervisor function of session s has returned.
Done(s) == pc[s] = "done"

\* The send_update calls of session s made with is_complete=True.
TerminalCalls(s) == {i \in 1..Len(calls[s]) : calls[s][i].complete}

\* The send_update calls on s's notifier that have started and not returned.
InFlight(s) ==
    (IF pc[s] \in {"posting", "post_done"} THEN 1 ELSE 0)
    + Cardinality({k \in 1..Len(tasks) :
                     tasks[k].owner = s /\ tasks[k].st \in {"posting"} \cup PostOutcomes})

\* C2: a supervisor run that has returned made exactly one send_update call
\* with is_complete=True for its session.
C2_ExactlyOneTerminal ==
    \A s \in Sessions : Done(s) => Cardinality(TerminalCalls(s)) = 1

\* C3: a supervisor run that has returned made at least one send_update call
\* with is_complete=True, also when _initialize raised.
C3_AtLeastOneTerminal ==
    \A s \in Sessions : Done(s) => Cardinality(TerminalCalls(s)) >= 1

\* C4: when a supervisor run has returned, the MCP sessions its service
\* opened are closed and the notifier's HTTP client is closed.
C4_ResourcesReleased ==
    \A s \in Sessions : Done(s) => mcp[s].sessions # "open" /\ OpenClients(client[s]) = {}

\* C5: once an exception was raised inside the pipeline of a session, every
\* terminal notification attempted for it carries status "error".
C5_ErrorStatusOnRaise ==
    \A s \in Sessions :
        exc[s] # "-" => \A i \in TerminalCalls(s) : calls[s][i].status = "error"

\* C6: no exception leaves a supervisor function, whatever failed
\* (initialization, the agent run, a missing notifier method), and a
\* supervisor that has returned has run its cleanup.
C6_NoExceptionEscapes ==
    \A s \in Sessions : ~escaped[s] /\ (Done(s) => closed[s])

\* C6 witness: a profesor supervisor whose error notification hit the missing
\* send_error_update method has returned.
C6_Witness ==
    \E s \in Sessions :
        Done(s) /\ role[s] = "profesor" /\ exc[s] = "AttributeError" /\ closed[s]

\* C7: at a session's callback URL no "processing" notification arrives after
\* the notification with isComplete=true.
C7_NoProcessingAfterTerminal ==
    \A s \in Sessions : \A i, j \in 1..Len(posted[s]) :
        i < j => ~(posted[s][i].complete /\ ~posted[s][j].complete)

\* C7, first half: the sends of one session never overlap (each finishes
\* before the next one starts).
C7_OneSendAtATime ==
    \A s \in Sessions : InFlight(s) <= 1

\* C8: every notification received at a session's callback URL was generated
\* by that session's own pipeline.
C8_OwnNotificationsOnly ==
    \A s \in Sessions : \A i \in 1..Len(posted[s]) : posted[s][i].origin = s

\* C9: after FeedbackGeneralService.close() no send_update runs on the
\* service's notifier and no HTTP client of it is open.
C9_NoUseAfterClose ==
    \A s \in Sessions :
        /\ \A i \in 1..Len(calls[s]) : ~calls[s][i].late
        /\ closed[s] => OpenClients(client[s]) = {}

\* C10: send_update never raises; it returns True exactly when the POST
\* returned a success status, and makes at most one POST.
C10_SendUpdateReturnsBool ==
    lastSend.outcome # "none" =>
        /\ ~lastSend.raises
        /\ lastSend.ret <=> (lastSend.outcome = "ok")
        /\ lastSend.posts <= 1

\* C23: every notification a session sends or gets delivered has a status in
\* {processing, completed, error} and is marked complete exactly when its
\* status is completed or error.
C23_StatusAndCompleteAgree ==
    \A s \in Sessions :
        /\ \A i \in 1..Len(posted[s]) :
              /\ posted[s][i].status \in {"processing", "completed", "error"}
              /\ posted[s][i].complete <=>
                    posted[s][i].status \in {"completed", "error"}
        /\ \A i \in 1..Len(calls[s]) :
              /\ calls[s][i].status \in {"processing", "completed", "error"}
              /\ calls[s][i].complete <=>
                    calls[s][i].status \in {"completed", "error"}

\* C23 witness: a callback URL received a processing notification that is
\* not complete and an error notification that is.
C23_Witness ==
    \E s \in Sessions : \E i, j \in 1..Len(posted[s]) :
        /\ posted[s][i].status = "processing" /\ ~posted[s][i].complete
        /\ posted[s][j].status = "error" /\ posted[s][j].complete

\* C35: the notifier makes its HTTP client on the first send_update and keeps
\* it: no client before the first call, one client for all the calls made
\* on a service whose close() has not been called, never two open clients of
\* one notifier, close() changes nothing when there is no open client (called
\* twice, or before any send), and once close() has been called the client
\* of a service that made only one is closed.
C35_LazyReusedClient ==
    \A s \in Sessions :
        /\ calls[s] = <<>> => client[s] = <<>>
        /\ (calls[s] # <<>> /\ ~closed[s]
                /\ pc[s] \notin {"closing", "close_done"}) =>
              client[s] = <<"open">>
        /\ Cardinality(OpenClients(client[s])) <= 1
        /\ NotifierClose(NotifierClose(client[s])) = NotifierClose(client[s])
        /\ NotifierClose(<<>>) = <<>>
        /\ (closed[s] \/ pc[s] \in {"closing", "close_done"}) =>
              (Len(client[s]) <= 1 => client[s] \in {<<>>, <<"closed">>})

\* C35 witness: a service that sent several updates with its one client was
\* closed.
C35_Witness ==
    \E s \in Sessions :
        /\ Len(calls[s]) >= 2 /\ closed[s] /\ client[s] = <<"closed">>

\* The send_update calls of session s made with is_complete=True, in order,
\* as status and flag.
TerminalSeq(s) ==
    LET Terminal(c) == c.complete
        seq == SelectSeq(calls[s], Terminal)
    IN  [i \in 1..Len(seq) |-> <<seq[i].status, seq[i].complete>>]

\* C37: a coordinador run and a profesor run that have both returned from the
\* same pipeline outcome attempted the same terminal notifications, in number,
\* status and flag, and both closed their service.
C37_SupervisorsEquivalent ==
    \A s, u \in Sessions :
        (Done(s) /\ Done(u) /\ role[s] = "coordinador" /\ role[u] = "profesor"
            /\ exc[s] = exc[u]) =>
            /\ TerminalSeq(s) = TerminalSeq(u)
            /\ closed[s] = closed[u]

\* Session s is not inside run_with_streaming: it has not entered it yet, or
\* has left it (the supervisor's own notification, its except and finally).
OutsideRunWithStreaming(s) ==
    \/ pc[s] \in {"idle", "queued", "connecting", "connect_ok", "connect_fail",
                  "create_llm", "rws_enter", "sup_except", "sup_finally",
                  "closing", "close_done", "done"}
    \/ (pc[s] \in {"send", "posting", "post_done"}
            /\ sendCtx[s].cont = "sup_finally")

\* The handlers on the 'mcp_use' logger that session s installed.
HandlersOf(s) == {i \in 1..Len(handlers) : handlers[i] = s}

\* C38: the handlers on the shared logger are exactly those of the sessions
\* that are inside run_with_streaming, one each; a session that left it, by
\* return or by exception, has none, and when all sessions are done the
\* logger has no handler left.
C38_HandlerRemovedOnExit ==
    /\ \A s \in Sessions :
          Cardinality(HandlersOf(s)) = IF OutsideRunWithStreaming(s) THEN 0 ELSE 1
    /\ (\A s \in Sessions : Done(s)) => handlers = <<>>

\* C38 witness: the agent of a coordinador session raised, run_with_streaming
\* re-raised and the session is done; the other session is still inside
\* run_with_streaming, and the only handler is the other's.
C38_Witness ==
    \E s, u \in Sessions :
        /\ Done(s) /\ role[s] = "coordinador" /\ exc[s] = "AttributeError"
        /\ ~OutsideRunWithStreaming(u)
        /\ handlers = <<u>>

\* C10 witness: a send_update call whose POST failed on the network has
\* returned False, after one POST.
C10_Witness ==
    lastSend.outcome = "net_error" /\ ~lastSend.ret /\ lastSend.posts = 1

====
